---- MODULE Spec2Model ----
(***************************************************************************)
(* Model of the ImageCrop control's view-transform engine:                 *)
(*   - the geometry kernel (utils/viewportUtils.ts),                       *)
(*   - the view-transform store (hooks/useImageViewTransform.ts),          *)
(*   - the parts of components/imageCropControl.tsx that drive the store   *)
(*     (ResizeObserver, image load, host scaling effect, wheel, pan drag). *)
(*                                                                         *)
(* JavaScript numbers are modelled as exact rationals <<n, d>> (d > 0, in  *)
(* lowest terms); floating-point rounding is not modelled.                 *)
(*                                                                         *)
(* React scheduling: a setState call queues an update; Render commits the  *)
(* queued updates, runs the effects whose dependencies changed and commits *)
(* the updates those effects queue.  Several events may queue updates      *)
(* before one Render (React 18 batching, index.ts uses createRoot).        *)
(***************************************************************************)
EXTENDS Integers, Sequences, FiniteSets, TLC

----------------------------------------------------------------------------
(* Exact rational arithmetic standing for JS number arithmetic.            *)

RECURSIVE Gcd(_, _)
Gcd(a, b) == IF b = 0 THEN a ELSE Gcd(b, a % b)

Abs(x) == IF x < 0 THEN -x ELSE x

\* n / d in lowest terms with a positive denominator (d # 0).
Q(n, d) ==
    LET s == IF d < 0 THEN -1 ELSE 1
        g == Gcd(Abs(n), Abs(d))
    IN  <<(s * n) \div g, (s * d) \div g>>

I(n) == <<n, 1>>

QAdd(a, b) == Q(a[1] * b[2] + b[1] * a[2], a[2] * b[2])
QSub(a, b) == Q(a[1] * b[2] - b[1] * a[2], a[2] * b[2])
QMul(a, b) == Q(a[1] * b[1], a[2] * b[2])
\* a / b for b # 0 (every division of the modelled code has a non-zero divisor
\* in the states the model reaches; scale is always > 0).
QDiv(a, b) == Q(a[1] * b[2], a[2] * b[1])
QLt(a, b) == a[1] * b[2] < b[1] * a[2]
QLe(a, b) == a[1] * b[2] <= b[1] * a[2]
\* Math.max / Math.min
QMax(a, b) == IF QLt(a, b) THEN b ELSE a
QMin(a, b) == IF QLt(b, a) THEN b ELSE a

----------------------------------------------------------------------------
(* Geometry kernel: utils/viewportUtils.ts                                 *)

\* MIN_ZOOM_MULTIPLIER = 0.4, MAX_ZOOM_MULTIPLIER = 3.0
MIN_ZOOM_MULTIPLIER == Q(2, 5)
MAX_ZOOM_MULTIPLIER == Q(3, 1)

\* Mutant of getCoverScale: "contain" fit (min) instead of "cover" fit (max).
getCoverScale_contain(viewportW, viewportH, imgW, imgH) ==
    IF imgW <= 0 \/ imgH <= 0 THEN I(1)
    ELSE QMin(Q(viewportW, imgW), Q(viewportH, imgH))

getCoverScale(viewportW, viewportH, imgW, imgH) ==
    IF imgW <= 0 \/ imgH <= 0 THEN I(1)
    ELSE QMax(Q(viewportW, imgW), Q(viewportH, imgH))

getCenterTranslation(viewportW, viewportH, imgW, imgH, scale) ==
    LET scaledW == QMul(I(imgW), scale)
        scaledH == QMul(I(imgH), scale)
    IN  [translateX |-> QDiv(QSub(I(viewportW), scaledW), I(2)),
         translateY |-> QDiv(QSub(I(viewportH), scaledH), I(2))]

\* Mutant of clampAxis: the centring branch for r < viewport is missing.
clampAxis_noCentre(viewport, img, scale, translate) ==
    LET r == QMul(I(img), scale)
    IN  QMax(QSub(I(viewport), r), QMin(I(0), translate))

\* One axis of clampTranslation: [min, max] = [viewport - r, 0], or the
\* centred value for both when the rendered size r is below the viewport.
clampAxis(viewport, img, scale, translate) ==
    LET r    == QMul(I(img), scale)
        lo   == IF QLt(r, I(viewport))
                THEN QDiv(QSub(I(viewport), r), I(2))
                ELSE QSub(I(viewport), r)
        hi   == IF QLt(r, I(viewport))
                THEN QDiv(QSub(I(viewport), r), I(2))
                ELSE I(0)
    IN  QMax(lo, QMin(hi, translate))

clampTranslation(viewportW, viewportH, imgW, imgH, scale, translateX, translateY) ==
    [translateX |-> clampAxis(viewportW, imgW, scale, translateX),
     translateY |-> clampAxis(viewportH, imgH, scale, translateY)]

\* Mutant of getScaleLimits: the earlier 8x ceiling (MAX_SCALE_MULTIPLE).
getScaleLimits_max8(viewportW, viewportH, imgW, imgH) ==
    IF viewportW <= 0 \/ viewportH <= 0 \/ imgW <= 0 \/ imgH <= 0
    THEN [minScale |-> Q(1, 1000), maxScale |-> I(8), baseScale |-> I(1)]
    ELSE LET baseScale == getCoverScale(viewportW, viewportH, imgW, imgH)
         IN  [minScale  |-> QMul(baseScale, MIN_ZOOM_MULTIPLIER),
              maxScale  |-> QMul(baseScale, I(8)),
              baseScale |-> baseScale]

\* Mutant of getScaleLimits: the floor is the cover scale, not 0.4 of it.
getScaleLimits_minCover(viewportW, viewportH, imgW, imgH) ==
    IF viewportW <= 0 \/ viewportH <= 0 \/ imgW <= 0 \/ imgH <= 0
    THEN [minScale |-> Q(1, 1000), maxScale |-> I(8), baseScale |-> I(1)]
    ELSE LET baseScale == getCoverScale(viewportW, viewportH, imgW, imgH)
         IN  [minScale  |-> baseScale,
              maxScale  |-> QMul(baseScale, MAX_ZOOM_MULTIPLIER),
              baseScale |-> baseScale]

getScaleLimits(viewportW, viewportH, imgW, imgH) ==
    IF viewportW <= 0 \/ viewportH <= 0 \/ imgW <= 0 \/ imgH <= 0
    THEN [minScale |-> Q(1, 1000), maxScale |-> I(8), baseScale |-> I(1)]
    ELSE LET baseScale == getCoverScale(viewportW, viewportH, imgW, imgH)
         IN  [minScale  |-> QMul(baseScale, MIN_ZOOM_MULTIPLIER),
              maxScale  |-> QMul(baseScale, MAX_ZOOM_MULTIPLIER),
              baseScale |-> baseScale]

\* Mutant of zoomAtPoint: the zoom is anchored at the viewport centre, not at (px, py).
zoomAtPoint_centre(viewportW, viewportH, imgW, imgH, scale, newScale, translateX, translateY, px, py) ==
    LET factor == QDiv(newScale, scale)
        tx     == QSub(Q(viewportW, 2), QMul(QSub(Q(viewportW, 2), translateX), factor))
        ty     == QSub(Q(viewportH, 2), QMul(QSub(Q(viewportH, 2), translateY), factor))
    IN  clampTranslation(viewportW, viewportH, imgW, imgH, newScale, tx, ty)

zoomAtPoint(viewportW, viewportH, imgW, imgH, scale, newScale, translateX, translateY, px, py) ==
    LET factor == QDiv(newScale, scale)
        tx     == QSub(px, QMul(QSub(px, translateX), factor))
        ty     == QSub(py, QMul(QSub(py, translateY), factor))
    IN  clampTranslation(viewportW, viewportH, imgW, imgH, newScale, tx, ty)

----------------------------------------------------------------------------
(* Bounds and input sets of the model.                                     *)

\* Most updates that events may queue before a Render commits them.
MaxQueue == 2

\* Most input events (resize notifications, host input changes, wheel events,
\* pointer downs and moves) in one run.
MaxSteps == 3

\* Sizes the viewport element may be measured at (clientWidth x clientHeight).
Viewports == {<<450, 350>>, <<900, 350>>, <<300, 600>>}

\* Image sources the host may supply (0 = no image) and their natural sizes;
\* sources 1 and 2 are different images of the same natural size.
ImageSrcs == {0, 1, 2, 3}
NaturalOf(src) == IF src = 3 THEN <<1080, 1920>> ELSE <<1920, 1080>>

\* The text of an image input as updateView sees it: whether it starts with
\* "data:image/", its length, its first 40 and its last 40 characters.
\* InvalidHost is a host value that is not empty and not a usable image.
InvalidHost == 9
HostData(src) ==
    IF src = 0 THEN [dataImage |-> FALSE, length |-> 0, head |-> 0, tail |-> 0]
    ELSE IF src = InvalidHost THEN [dataImage |-> TRUE, length |-> 120, head |-> 1, tail |-> 9]
    ELSE IF src = 3 THEN [dataImage |-> TRUE, length |-> 420, head |-> 1, tail |-> 3]
    ELSE [dataImage |-> TRUE, length |-> 300, head |-> 1, tail |-> src]

\* hostIsValid = !hostIsEmpty && hostSrc.startsWith("data:image/") && hostSrc.length > 200
hostIsValid(src) == src # 0 /\ HostData(src).dataImage /\ HostData(src).length > 200

\* hostSig = hostSrc ? `${length}:${slice(0, 40)}:${slice(-40)}` : ""
NoSignature == <<>>
hostSig(src) ==
    IF src = 0 THEN <<0>>
    ELSE <<HostData(src).length, HostData(src).head, HostData(src).tail>>

\* Values of the host's "scaling" input.
HostScalings == {I(1), I(4)}

\* Zoom factors of a wheel event (Math.exp(-deltaY * 0.001) for some deltaY).
ZoomFactors == {Q(1, 2), I(2)}

\* Pointer positions in viewport coordinates (the viewport's bounding rect
\* is at the client origin).
PointerPos == {<<0, 0>>, <<200, 100>>}

\* "No setState pending" for a size state.
NoSize == <<-1, -1>>
NoPan == [startX |-> -1, startY |-> -1, startTx |-> I(0), startTy |-> I(0)]
\* crop / completedCrop / defaultCrop undefined
NoCrop == [unit |-> "none", x |-> I(0), y |-> I(0), width |-> I(0), height |-> I(0)]
\* _cropResults before any export was delivered.
NoResult == [req |-> 0, kind |-> "none"]
\* pinchRef.current = null
NoPinch == [initialScale |-> I(0), centerX |-> I(0), centerY |-> I(0)]

----------------------------------------------------------------------------
(* State.                                                                  *)

VARIABLES
    imageSrc,        \* src of the <img> (useImageSrc), 0 = none
    loadPending,     \* the <img> has a load event still to fire
    viewportSize,    \* React state viewportSize, as committed
    naturalSize,     \* React state naturalSize, as committed
    pendViewport,    \* value of a queued setViewportSize, or NoSize
    pendNatural,     \* value of a queued setNaturalSize, or NoSize
    hostScaling,     \* context.parameters.scaling as the host last set it
    scaling,         \* useScaling(...) as of the last render
    transform,       \* React state transform (= transformRef.current)
    queue,           \* queued setTransform updates, oldest first
    lastViewportRef, \* lastViewportRef.current
    lastNaturalRef,  \* lastNaturalRef.current
    panRef,          \* panRef.current, or NoPan
    steps,           \* input events so far (bounded by MaxSteps)
    loadSrc,         \* history: the source whose load event was handled last
    shownSrc,        \* history: the source whose natural size is committed
    lastRender,      \* history: what the last Render did
    zoomMultiplier,  \* index.ts _zoomMultiplier, returned by getOutputs()
    enablePanImage,  \* host input enablePanImage
    shiftToPanEnabled, \* host input useShiftToPanImage
    enableCropping,  \* host input enableCropping
    hostLocked,      \* host input locked
    rotation,        \* host input rotation, in degrees
    isPanMode,       \* React state isPanMode (Shift is held)
    pointers,        \* activePointersRef.current.size
    hoverPointers,   \* how many of them are in the map without being pressed
    captured,        \* how many of the pressed pointers hold the viewport's pointer capture
    pinchRef,        \* pinchRef.current, or NoPinch
    lastDown,        \* history: what the last pointer-down did, until its pointer is up
    downOnCrop,      \* history: whether that pointer-down landed on the crop rectangle
    lastWheel,       \* history: whether the last wheel event had its default prevented
    exports,         \* the export requests (runs of the useCropToBase64 effect), oldest first
    cropResults,     \* index.ts _cropResults: the result onCropComplete delivered last
    crop,            \* React state crop, or NoCrop (undefined)
    completedCrop,   \* React state completedCrop, or NoCrop (undefined)
    cropIsViewportSpaceRef, \* cropIsViewportSpaceRef.current
    defaultCrop,     \* useDefaultCrop(...): the host's default crop, or NoCrop
    cropBeforeOff,   \* history: the rectangle presented when cropping was last turned off
    internalImageDataUrl,   \* index.ts _internalImageDataUrl (0 = undefined)
    overrideHostImage,      \* index.ts _overrideHostImage
    lastHostImageSignature, \* index.ts _lastHostImageSignature, or NoSignature (null)
    lastClearToken,         \* index.ts _lastClearToken
    hostImageInput   \* context.parameters.imageInput.raw of the context rendered last

\* Host configuration of the pointer gestures.
configVars == <<enablePanImage, shiftToPanEnabled, enableCropping, hostLocked, rotation>>

\* State of the pointer gestures other than the pan anchor.
gestureVars == <<isPanMode, pointers, hoverPointers, captured, pinchRef, lastDown, downOnCrop>>

\* State of the crop rectangle.
cropVars == <<crop, completedCrop, cropIsViewportSpaceRef, defaultCrop, cropBeforeOff>>

\* State of index.ts that selects the image source.
sourceVars == <<internalImageDataUrl, overrideHostImage, lastHostImageSignature,
                lastClearToken, hostImageInput>>

\* State of the export (the requests and the result the host holds) and of
\* the crop rectangle.
auxVars == <<exports, cropResults, cropVars, sourceVars>>

vars == <<imageSrc, loadPending, viewportSize, naturalSize, pendViewport,
          pendNatural, hostScaling, scaling, transform, queue,
          lastViewportRef, lastNaturalRef, panRef, steps, loadSrc, shownSrc,
          lastRender, zoomMultiplier, enablePanImage, shiftToPanEnabled,
          enableCropping, hostLocked, rotation, isPanMode, pointers, hoverPointers,
          captured, pinchRef, lastDown, downOnCrop, lastWheel, exports, cropResults,
          crop, completedCrop, cropIsViewportSpaceRef, defaultCrop, cropBeforeOff,
          internalImageDataUrl, overrideHostImage, lastHostImageSignature,
          lastClearToken, hostImageInput>>

\* const isTransformReady = naturalSize... > 0 && viewportSize... > 0
isReady(vs, ns) == ns[1] > 0 /\ ns[2] > 0 /\ vs[1] > 0 /\ vs[2] > 0
isTransformReady == isReady(viewportSize, naturalSize)

\* transformRef.current = transform, assigned on every render.
transformRef == transform

\* const panModeActive = enablePanImage && (!shiftToPanEnabled || isPanMode)
panModeActive_noShift == enablePanImage

panModeActive == enablePanImage /\ (~shiftToPanEnabled \/ isPanMode)

\* The locked prop of CropWrapper: locked || panModeActive.
cropLocked == hostLocked \/ panModeActive

----------------------------------------------------------------------------
(* View-transform store: hooks/useImageViewTransform.ts                    *)

\* A queued setTransform update.  kind "set": the value {scale, x, y};
\* "applyScale": the updater of applyScale(scale, x, y);
\* "panBy": the updater of panBy(x, y).
Update(kind, s, x, y) == [kind |-> kind, scale |-> s, x |-> x, y |-> y]

clamp(vs, ns, t) ==
    LET c == clampTranslation(vs[1], vs[2], ns[1], ns[2], t.scale, t.translateX, t.translateY)
    IN  [scale |-> t.scale, translateX |-> c.translateX, translateY |-> c.translateY]

\* The updater panBy passes to setTransform (the hook exports panBy; the
\* control pans through setTransformDirect and never calls it).
panBy(vs, ns, prev, deltaX, deltaY) ==
    clamp(vs, ns, [scale |-> prev.scale,
                   translateX |-> QAdd(prev.translateX, deltaX),
                   translateY |-> QAdd(prev.translateY, deltaY)])

\* applyScale with the floor of the scale clamp at baseScale.
applyScale_floorBase(vs, ns, prev, newScale, px, py) ==
    LET lim          == getScaleLimits(vs[1], vs[2], ns[1], ns[2])
        clampedScale == QMax(lim.baseScale, QMin(lim.maxScale, newScale))
        z == zoomAtPoint(vs[1], vs[2], ns[1], ns[2], prev.scale, clampedScale, prev.translateX, prev.translateY, px, py)
    IN  clamp(vs, ns, [scale |-> clampedScale, translateX |-> z.translateX, translateY |-> z.translateY])

\* The updater applyScale passes to setTransform.
applyScale(vs, ns, prev, newScale, px, py) ==
    LET lim          == getScaleLimits(vs[1], vs[2], ns[1], ns[2])
        clampedScale == QMax(lim.minScale, QMin(lim.maxScale, newScale))
        z == zoomAtPoint(vs[1], vs[2], ns[1], ns[2], prev.scale, clampedScale, prev.translateX, prev.translateY, px, py)
    IN  clamp(vs, ns, [scale |-> clampedScale, translateX |-> z.translateX, translateY |-> z.translateY])

\* zoomAt: the update it queues; the proposed scale comes from
\* transformRef.current, the transform of the last render.
zoomAt(vs, ns, viewportPx, viewportPy, deltaScale) ==
    LET t             == transformRef
        lim           == getScaleLimits(vs[1], vs[2], ns[1], ns[2])
        proposedScale == QMul(t.scale, deltaScale)
        clampedScale  == QMax(lim.minScale, QMin(lim.maxScale, proposedScale))
    IN  Update("applyScale", clampedScale, viewportPx, viewportPy)

\* setTransformDirect: setTransform(clamp(t)), a value.
setTransformDirect(vs, ns, t) ==
    LET c == clamp(vs, ns, t)
    IN  Update("set", c.scale, c.translateX, c.translateY)

\* One queued update applied to the state it finds; the closures hold the
\* sizes vs, ns of the render that created them.
ApplyUpdate(vs, ns, prev, u) ==
    CASE u.kind = "set" -> [scale |-> u.scale, translateX |-> u.x, translateY |-> u.y]
      [] u.kind = "applyScale" -> applyScale(vs, ns, prev, u.scale, u.x, u.y)
      [] u.kind = "panBy" -> panBy(vs, ns, prev, u.x, u.y)

RECURSIVE ApplyQueue(_, _, _, _)
ApplyQueue(vs, ns, prev, q) ==
    IF q = <<>> THEN prev
    ELSE ApplyQueue(vs, ns, ApplyUpdate(vs, ns, prev, Head(q)), Tail(q))

\* The resize branch taking the pan centre at the new viewport centre
\* instead of the old one.
resizeBranch_newCentre(oldVs, vs, ns, t) ==
    LET oldBaseScale == getCoverScale(oldVs[1], oldVs[2], ns[1], ns[2])
        newBaseScale == getCoverScale(vs[1], vs[2], ns[1], ns[2])
        maxScale     == getScaleLimits(vs[1], vs[2], ns[1], ns[2]).maxScale
        zoomFactor   == IF QLt(I(0), oldBaseScale) THEN QDiv(t.scale, oldBaseScale) ELSE I(1)
        newScale     == QMax(newBaseScale, QMin(maxScale, QMul(newBaseScale, zoomFactor)))
        imgCenterX   == QDiv(QSub(Q(vs[1], 2), t.translateX), t.scale)
        imgCenterY   == QDiv(QSub(Q(vs[2], 2), t.translateY), t.scale)
        newTx        == QSub(Q(vs[1], 2), QMul(imgCenterX, newScale))
        newTy        == QSub(Q(vs[2], 2), QMul(imgCenterY, newScale))
        clamped      == clampTranslation(vs[1], vs[2], ns[1], ns[2], newScale, newTx, newTy)
    IN  Update("set", newScale, clamped.translateX, clamped.translateY)

\* The resize branch of the fit effect (isResize).
resizeBranch(oldVs, vs, ns, t) ==
    LET oldBaseScale == getCoverScale(oldVs[1], oldVs[2], ns[1], ns[2])
        newBaseScale == getCoverScale(vs[1], vs[2], ns[1], ns[2])
        maxScale     == getScaleLimits(vs[1], vs[2], ns[1], ns[2]).maxScale
        zoomFactor   == IF QLt(I(0), oldBaseScale) THEN QDiv(t.scale, oldBaseScale) ELSE I(1)
        newScale     == QMax(newBaseScale, QMin(maxScale, QMul(newBaseScale, zoomFactor)))
        imgCenterX   == QDiv(QSub(Q(oldVs[1], 2), t.translateX), t.scale)
        imgCenterY   == QDiv(QSub(Q(oldVs[2], 2), t.translateY), t.scale)
        newTx        == QSub(Q(vs[1], 2), QMul(imgCenterX, newScale))
        newTy        == QSub(Q(vs[2], 2), QMul(imgCenterY, newScale))
        clamped      == clampTranslation(vs[1], vs[2], ns[1], ns[2], newScale, newTx, newTy)
    IN  Update("set", newScale, clamped.translateX, clamped.translateY)

\* The initial cover fit branch of the fit effect.
fitBranch(vs, ns) ==
    LET s == getCoverScale(vs[1], vs[2], ns[1], ns[2])
        c == getCenterTranslation(vs[1], vs[2], ns[1], ns[2], s)
    IN  Update("set", s, c.translateX, c.translateY)

\* The fit / resize effect, run when one of its dependencies changed:
\* the updates it queues and the refs it leaves.
\* The fit effect without its readiness guard.
fitEffect_noGuard(vs, ns, lastV, lastN, t) ==
    LET viewportChanged == lastV[1] > 0 /\ lastV[2] > 0 /\ lastV # vs
        naturalChanged  == lastN # ns
        isResize        == viewportChanged /\ ~naturalChanged
        isFirstRun      == lastN[1] = 0 /\ lastN[2] = 0
    IN  [updates |-> IF isResize THEN <<resizeBranch(lastV, vs, ns, t)>>
                     ELSE IF naturalChanged \/ isFirstRun THEN <<fitBranch(vs, ns)>>
                     ELSE <<>>,
         lastViewport |-> vs,
         lastNatural  |-> ns]

fitEffect(vs, ns, lastV, lastN, t) ==
    IF ~isReady(vs, ns)
    THEN [updates |-> <<>>, lastViewport |-> lastV, lastNatural |-> lastN]
    ELSE LET viewportChanged == lastV[1] > 0 /\ lastV[2] > 0 /\ lastV # vs
             naturalChanged  == lastN # ns
             isResize        == viewportChanged /\ ~naturalChanged
             isFirstRun      == lastN[1] = 0 /\ lastN[2] = 0
         IN  [updates |-> IF isResize THEN <<resizeBranch(lastV, vs, ns, t)>>
                          ELSE IF naturalChanged \/ isFirstRun THEN <<fitBranch(vs, ns)>>
                          ELSE <<>>,
              lastViewport |-> vs,
              lastNatural  |-> ns]

----------------------------------------------------------------------------
(* components/imageCropControl.tsx                                         *)

\* The host scaling effect anchored at the viewport origin.
scalingEffect_origin(vs, ns, sc) ==
    IF ~isReady(vs, ns) THEN <<>>
    ELSE LET lim      == getScaleLimits(vs[1], vs[2], ns[1], ns[2])
             newScale == QMax(lim.minScale, QMin(lim.maxScale, QMul(lim.baseScale, sc)))
         IN  IF QLe(lim.baseScale, I(0)) THEN <<>>
             ELSE <<Update("applyScale", newScale, I(0), I(0))>>

\* The host scaling effect, run when one of its dependencies changed.
scalingEffect(vs, ns, sc) ==
    IF ~isReady(vs, ns) THEN <<>>
    ELSE LET lim      == getScaleLimits(vs[1], vs[2], ns[1], ns[2])
             newScale == QMax(lim.minScale, QMin(lim.maxScale, QMul(lim.baseScale, sc)))
         IN  IF QLe(lim.baseScale, I(0)) THEN <<>>
             ELSE <<Update("applyScale", newScale, Q(vs[1], 2), Q(vs[2], 2))>>

\* Mutant of sizeDepsChanged: the dependency is the viewportSize object, which
\* every setViewportSize call replaces, not its width and height.
sizeDepsChanged_identity(vs0, ns0, vs1, ns1) ==
    pendViewport # NoSize \/ <<vs0, ns0>> # <<vs1, ns1>>

\* Dependencies [isReady, viewportWidth, viewportHeight, naturalWidth,
\* naturalHeight] of the fit effect, also those of applyScale's identity.
sizeDepsChanged(vs0, ns0, vs1, ns1) == <<vs0, ns0>> # <<vs1, ns1>>

\* Dependencies of the host scaling effect: scaling and the sizes.
scalingDepsChanged(vs0, ns0, sc0, vs1, ns1, sc1) ==
    sc0 # sc1 \/ sizeDepsChanged(vs0, ns0, vs1, ns1)

\* ZOOM_MULTIPLIER_MIN = 0.4, ZOOM_MULTIPLIER_MAX = 3.0
\* defaultViewportCrop200: the centred 200 x 200 viewport crop box.
defaultViewportCrop200(viewportW, viewportH) ==
    LET defaultW == IF 200 < viewportW THEN 200 ELSE viewportW
        defaultH == IF 200 < viewportH THEN 200 ELSE viewportH
    IN  [unit |-> "px", x |-> Q(viewportW - defaultW, 2), y |-> Q(viewportH - defaultH, 2),
         width |-> I(defaultW), height |-> I(defaultH)]

\* viewportCropToNaturalPx without the translate in the inverse transform.
viewportCropToNaturalPx_noTranslate(viewportCrop, scale, tx, ty, naturalW, naturalH) ==
    LET ix == QDiv(viewportCrop.x, scale)
        iy == QDiv(viewportCrop.y, scale)
        iw == QDiv(viewportCrop.width, scale)
        ih == QDiv(viewportCrop.height, scale)
        x1 == QMax(I(0), QMin(ix, I(naturalW)))
        y1 == QMax(I(0), QMin(iy, I(naturalH)))
        x2 == QMax(x1, QMin(QAdd(ix, iw), I(naturalW)))
        y2 == QMax(y1, QMin(QAdd(iy, ih), I(naturalH)))
    IN  [unit |-> "px", x |-> x1, y |-> y1,
         width |-> QMax(I(0), QSub(x2, x1)), height |-> QMax(I(0), QSub(y2, y1))]

\* viewportCropToNaturalPx: viewport-space crop to natural pixels by the inverse
\* transform, clamped to the image bounds.
viewportCropToNaturalPx(viewportCrop, scale, tx, ty, naturalW, naturalH) ==
    LET ix == QDiv(QSub(viewportCrop.x, tx), scale)
        iy == QDiv(QSub(viewportCrop.y, ty), scale)
        iw == QDiv(viewportCrop.width, scale)
        ih == QDiv(viewportCrop.height, scale)
        x1 == QMax(I(0), QMin(ix, I(naturalW)))
        y1 == QMax(I(0), QMin(iy, I(naturalH)))
        x2 == QMax(x1, QMin(QAdd(ix, iw), I(naturalW)))
        y2 == QMax(y1, QMin(QAdd(iy, ih), I(naturalH)))
    IN  [unit |-> "px", x |-> x1, y |-> y1,
         width |-> QMax(I(0), QSub(x2, x1)), height |-> QMax(I(0), QSub(y2, y1))]

\* imageCropToViewportPx: image-space crop (px or %) to viewport pixels.
imageCropToViewportPx(c, naturalW, naturalH, scale, tx, ty, viewportW, viewportH) ==
    LET imgX == IF c.unit = "%" THEN QMul(QDiv(c.x, I(100)), I(naturalW)) ELSE c.x
        imgY == IF c.unit = "%" THEN QMul(QDiv(c.y, I(100)), I(naturalH)) ELSE c.y
        imgW == IF c.unit = "%" THEN QMul(QDiv(c.width, I(100)), I(naturalW)) ELSE c.width
        imgH == IF c.unit = "%" THEN QMul(QDiv(c.height, I(100)), I(naturalH)) ELSE c.height
    IN  [unit |-> "px", x |-> QAdd(QMul(imgX, scale), tx), y |-> QAdd(QMul(imgY, scale), ty),
         width |-> QMul(imgW, scale), height |-> QMul(imgH, scale)]

\* Math.round: the nearest integer, halves up.
Round(q) == (2 * q[1] + q[2]) \div (2 * q[2])

\* useCropToBase64, viewport-based path, for crop rectangle cropRect and
\* transform t over an imgW x imgH image: the canvas size and the arguments
\* of drawImage(img, 0, 0, imgW, imgH, dx, dy, dw, dh), or a blank image.
exportViewport(cropRect, t, imgW, imgH) ==
    LET x == Round(cropRect.x)
        y == Round(cropRect.y)
        w == Round(cropRect.width)
        h == Round(cropRect.height)
    IN  IF w <= 0 \/ h <= 0 THEN [blank |-> TRUE]
        ELSE [blank |-> FALSE, width |-> w, height |-> h,
              dx |-> QSub(t.translateX, I(x)), dy |-> QSub(t.translateY, I(y)),
              dw |-> QMul(I(imgW), t.scale), dh |-> QMul(I(imgH), t.scale)]

ZOOM_MULTIPLIER_MIN == Q(2, 5)
ZOOM_MULTIPLIER_MAX == Q(3, 1)

\* The zoom multiplier sync effect, run when one of its dependencies changed:
\* the value of _zoomMultiplier it leaves (onZoomMultiplierChange stores the
\* value it is called with).
syncEffect(vs, ns, t, published) ==
    IF ~isReady(vs, ns) THEN published
    ELSE LET baseScale == getScaleLimits(vs[1], vs[2], ns[1], ns[2]).baseScale
             raw       == QDiv(t.scale, baseScale)
         IN  IF QLe(baseScale, I(0)) THEN published
             ELSE QMax(ZOOM_MULTIPLIER_MIN, QMin(ZOOM_MULTIPLIER_MAX, raw))

\* Mutant of syncDepsChanged: transform.scale is missing from the dependencies.
syncDepsChanged_sizes(vs0, ns0, t0, vs1, ns1, t1) ==
    sizeDepsChanged(vs0, ns0, vs1, ns1)

\* Dependencies of the sync effect: the sizes and transform.scale.
syncDepsChanged(vs0, ns0, t0, vs1, ns1, t1) ==
    sizeDepsChanged(vs0, ns0, vs1, ns1) \/ t0.scale # t1.scale

\* The state after mount: the measuring effect has called setViewportSize
\* with the element's size; no image source yet.
Init ==
    /\ imageSrc = 0
    /\ loadPending = FALSE
    /\ viewportSize = <<0, 0>>
    /\ naturalSize = <<0, 0>>
    /\ pendViewport \in Viewports
    /\ pendNatural = NoSize
    /\ hostScaling = I(1)
    /\ scaling = I(1)
    /\ transform = [scale |-> I(1), translateX |-> I(0), translateY |-> I(0)]
    /\ queue = <<>>
    /\ lastViewportRef = <<0, 0>>
    /\ lastNaturalRef = <<0, 0>>
    /\ panRef = NoPan
    /\ steps = 0
    /\ loadSrc = 0
    /\ shownSrc = 0
    /\ lastRender = "none"
    /\ zoomMultiplier = I(1)
    /\ enablePanImage = TRUE
    /\ shiftToPanEnabled = FALSE
    /\ enableCropping = FALSE
    /\ hostLocked = FALSE
    /\ rotation = 0
    /\ isPanMode = FALSE
    /\ pointers = 0
    /\ hoverPointers = 0
    /\ captured = 0
    /\ pinchRef = NoPinch
    /\ lastDown = "none"
    /\ downOnCrop = FALSE
    /\ lastWheel = "none"
    /\ exports = <<>>
    /\ cropResults = NoResult
    /\ internalImageDataUrl = 0
    /\ overrideHostImage = FALSE
    /\ lastHostImageSignature = NoSignature
    /\ lastClearToken = 0
    /\ hostImageInput = 0
    /\ crop = NoCrop
    /\ completedCrop = NoCrop
    /\ cropIsViewportSpaceRef = FALSE
    /\ defaultCrop = NoCrop
    /\ cropBeforeOff = NoCrop

\* ResizeObserver callback: setViewportSize({clientWidth, clientHeight}).
ResizeTo(v) ==
    /\ steps < MaxSteps
    /\ steps' = steps + 1
    /\ pendViewport' = v
    /\ UNCHANGED <<imageSrc, loadPending, viewportSize, naturalSize, pendNatural,
                   hostScaling, scaling, transform, queue, lastViewportRef,
                   lastNaturalRef, panRef>>
    /\ UNCHANGED <<loadSrc, shownSrc, lastRender>>
    /\ UNCHANGED <<zoomMultiplier, configVars, gestureVars, lastWheel, auxVars>>

ResizeNotify == \E v \in Viewports : ResizeTo(v)

\* The host changes its scaling input (updateView re-renders with it).
HostSetScaling ==
    \E m \in HostScalings \ {hostScaling} :
        /\ steps < MaxSteps
        /\ steps' = steps + 1
        /\ hostScaling' = m
        /\ UNCHANGED <<imageSrc, loadPending, viewportSize, naturalSize, pendViewport,
                       pendNatural, scaling, transform, queue, lastViewportRef,
                       lastNaturalRef, panRef>>
        /\ UNCHANGED <<loadSrc, shownSrc, lastRender>>
        /\ UNCHANGED <<zoomMultiplier, configVars, gestureVars, lastWheel, auxVars>>

\* The image source changes: the measuring effect (dependency imageSrc)
\* measures the viewport element again (it has the size last measured), and
\* an empty source resets naturalSize
\* (effect "if (!imageSrc) setNaturalSize({0, 0})").
HostSetImage ==
    \E s \in ImageSrcs \ {imageSrc} :
        /\ steps < MaxSteps
        /\ steps' = steps + 1
        /\ imageSrc' = s
        /\ loadPending' = (s # 0)
        /\ pendViewport' = IF pendViewport # NoSize THEN pendViewport ELSE viewportSize
        /\ pendNatural' = IF s = 0 THEN <<0, 0>> ELSE pendNatural
        /\ UNCHANGED <<viewportSize, naturalSize, hostScaling, scaling,
                       transform, queue, lastViewportRef, lastNaturalRef, panRef>>
        /\ UNCHANGED <<loadSrc, shownSrc, lastRender>>
        /\ hostImageInput' = s
        /\ lastHostImageSignature' = IF hostIsValid(s) THEN hostSig(s)
                                     ELSE lastHostImageSignature
        /\ UNCHANGED <<internalImageDataUrl, overrideHostImage, lastClearToken>>
        /\ UNCHANGED <<zoomMultiplier, configVars, gestureVars, lastWheel,
                       exports, cropResults, cropVars>>

\* handleImageLoad: setNaturalSize({img.naturalWidth, img.naturalHeight}).
ImageLoad ==
    /\ loadPending
    /\ imageSrc # 0
    /\ loadPending' = FALSE
    /\ pendNatural' = NaturalOf(imageSrc)
    /\ loadSrc' = imageSrc
    /\ UNCHANGED <<imageSrc, viewportSize, naturalSize, pendViewport, hostScaling,
                   scaling, transform, queue, lastViewportRef, lastNaturalRef, panRef,
                   steps, shownSrc, lastRender>>
    /\ UNCHANGED <<zoomMultiplier, configVars, gestureVars, lastWheel, auxVars>>

\* handleWheel with the transform ready, pointer at p, zoomFactor f:
\* zoomAt(px, py, zoomFactor), then preventDefault.
WheelAt(p, f) ==
    /\ isTransformReady
    /\ Len(queue) < MaxQueue
    /\ queue' = Append(queue, zoomAt(viewportSize, naturalSize, I(p[1]), I(p[2]), f))
    /\ UNCHANGED <<imageSrc, loadPending, viewportSize, naturalSize, pendViewport,
                   pendNatural, hostScaling, scaling, transform, lastViewportRef,
                   lastNaturalRef, panRef>>
    /\ UNCHANGED <<loadSrc, shownSrc, lastRender>>
    /\ lastWheel' = "prevented"
    /\ UNCHANGED <<zoomMultiplier, configVars, gestureVars, auxVars>>

\* A wheel event over the control with the transform ready.
Wheel ==
    \E p \in PointerPos, f \in ZoomFactors :
        /\ steps < MaxSteps
        /\ steps' = steps + 1
        /\ WheelAt(p, f)

\* handleWheel with the transform not ready: the handler returns before
\* zoomAt and before preventDefault.
WheelNotReady ==
    /\ steps < MaxSteps
    /\ steps' = steps + 1
    /\ ~isTransformReady
    /\ lastWheel' = "default"
    /\ UNCHANGED <<imageSrc, loadPending, viewportSize, naturalSize, pendViewport,
                   pendNatural, hostScaling, scaling, transform, queue,
                   lastViewportRef, lastNaturalRef, panRef>>
    /\ UNCHANGED <<loadSrc, shownSrc, lastRender>>
    /\ UNCHANGED <<zoomMultiplier, configVars, gestureVars, auxVars>>

\* Most pointers the model holds down at once (a pinch needs two).
MaxPointers == 2

\* handlePointerDown without panRef.current = null at the start of a pinch.
PointerDownAt_keepPan(p, onCrop) ==
    /\ isTransformReady
    /\ pointers < MaxPointers
    /\ pointers' = pointers + 1
    /\ IF pointers + 1 = 2
       THEN /\ pinchRef' = [initialScale |-> transform.scale, centerX |-> I(p[1]), centerY |-> I(p[2])]
            /\ UNCHANGED panRef
            /\ lastDown' = "pinch"
       ELSE IF pointers + 1 = 1 /\ panModeActive
       THEN /\ panRef' = [startX |-> p[1], startY |-> p[2],
                          startTx |-> transform.translateX, startTy |-> transform.translateY]
            /\ pinchRef' = NoPinch
            /\ lastDown' = "pan"
       ELSE /\ UNCHANGED <<panRef, pinchRef>>
            /\ lastDown' = "unclaimed"
    /\ captured' = IF pointers + 1 = 2 \/ (pointers + 1 = 1 /\ panModeActive)
                   THEN captured + 1
                   ELSE captured
    /\ downOnCrop' = onCrop
    /\ UNCHANGED <<imageSrc, loadPending, viewportSize, naturalSize, pendViewport,
                   pendNatural, hostScaling, scaling, transform, queue,
                   lastViewportRef, lastNaturalRef>>
    /\ UNCHANGED <<loadSrc, shownSrc, lastRender>>
    /\ UNCHANGED <<zoomMultiplier, configVars, isPanMode, hoverPointers, lastWheel, auxVars>>

\* handlePointerDown for a primary-button pointer-down at p, which lands on
\* the crop rectangle (onCrop) or elsewhere.  The handler does not look at
\* the event's target.  With two pointers in the map it records the pinch
\* anchor (the gesture centre is taken as p); with one and pan permitted it
\* records the pan anchor; in both cases it captures the pointer and prevents
\* the default ("pinch", "pan"), otherwise it leaves the event alone
\* ("unclaimed").
PointerDownAt(p, onCrop) ==
    /\ isTransformReady
    /\ pointers < MaxPointers
    /\ pointers' = pointers + 1
    /\ IF pointers + 1 = 2
       THEN /\ pinchRef' = [initialScale |-> transform.scale, centerX |-> I(p[1]), centerY |-> I(p[2])]
            /\ panRef' = NoPan
            /\ lastDown' = "pinch"
       ELSE IF pointers + 1 = 1 /\ panModeActive
       THEN /\ panRef' = [startX |-> p[1], startY |-> p[2],
                          startTx |-> transform.translateX, startTy |-> transform.translateY]
            /\ pinchRef' = NoPinch
            /\ lastDown' = "pan"
       ELSE /\ UNCHANGED <<panRef, pinchRef>>
            /\ lastDown' = "unclaimed"
    /\ captured' = IF pointers + 1 = 2 \/ (pointers + 1 = 1 /\ panModeActive)
                   THEN captured + 1
                   ELSE captured
    /\ downOnCrop' = onCrop
    /\ UNCHANGED <<imageSrc, loadPending, viewportSize, naturalSize, pendViewport,
                   pendNatural, hostScaling, scaling, transform, queue,
                   lastViewportRef, lastNaturalRef>>
    /\ UNCHANGED <<loadSrc, shownSrc, lastRender>>
    /\ UNCHANGED <<zoomMultiplier, configVars, isPanMode, hoverPointers, lastWheel, auxVars>>

\* A mouse button pressed over the image with pan permitted.
PointerDown ==
    \E p \in PointerPos :
        /\ steps < MaxSteps
        /\ steps' = steps + 1
        /\ pointers = 0
        /\ panModeActive
        /\ PointerDownAt(p, FALSE)

\* The pan target with the displacement added to the rendered translate
\* instead of the translate recorded at pointer-down.
panTarget_fromCurrent(pan, x, y, t) ==
    [scale |-> t.scale,
     translateX |-> QAdd(t.translateX, I(x - pan.startX)),
     translateY |-> QAdd(t.translateY, I(y - pan.startY))]

\* The transform handlePointerMove passes to setTransformDirect in the pan
\* branch: the rendered scale, and the translate recorded at pointer-down
\* plus the total displacement of the pointer since then.
panTarget(pan, x, y, t) ==
    [scale |-> t.scale,
     translateX |-> QAdd(pan.startTx, I(x - pan.startX)),
     translateY |-> QAdd(pan.startTy, I(y - pan.startY))]

\* handlePointerMove, pan branch: setTransformDirect with the total displacement.
PointerMove ==
    \E p \in PointerPos :
        /\ steps < MaxSteps
        /\ steps' = steps + 1
        /\ ~(pinchRef # NoPinch /\ pointers = 2)
        /\ panRef # NoPan
        /\ Len(queue) < MaxQueue
        /\ queue' = Append(queue, setTransformDirect(viewportSize, naturalSize,
                                                      panTarget(panRef, p[1], p[2], transform)))
        /\ UNCHANGED <<imageSrc, loadPending, viewportSize, naturalSize, pendViewport,
                       pendNatural, hostScaling, scaling, transform, lastViewportRef,
                       lastNaturalRef, panRef>>
        /\ UNCHANGED <<loadSrc, shownSrc, lastRender>>
        /\ UNCHANGED <<zoomMultiplier, configVars, gestureVars, lastWheel, auxVars>>

\* The captures left when one of the pressed pointers goes up or is
\* cancelled: the pointer held the capture (handlePointerUp releases it, a
\* cancel makes the browser release it) or it never had it.
released(cap, pressed) ==
    {c \in {cap - 1, cap} : c >= 0 /\ c <= pressed - 1}

\* handlePointerUp for a pressed pointer released with e.button === 0: the
\* pointer leaves the map, panRef.current = null, the pinch anchor is dropped
\* unless two pointers remain, the capture is released.
PointerUp ==
    /\ pointers > hoverPointers
    /\ panRef' = NoPan
    /\ UNCHANGED <<imageSrc, loadPending, viewportSize, naturalSize, pendViewport,
                   pendNatural, hostScaling, scaling, transform, queue,
                   lastViewportRef, lastNaturalRef>>
    /\ UNCHANGED <<steps, loadSrc, shownSrc, lastRender>>
    /\ pointers' = pointers - 1
    /\ captured' \in released(captured, pointers - hoverPointers)
    /\ pinchRef' = IF pointers - 1 # 2 THEN NoPinch ELSE pinchRef
    /\ lastDown' = "none"
    /\ downOnCrop' = FALSE
    /\ UNCHANGED <<zoomMultiplier, configVars, isPanMode, hoverPointers, lastWheel, auxVars>>

\* Something is waiting for a render.
Dirty == queue # <<>> \/ pendViewport # NoSize \/ pendNatural # NoSize \/ hostScaling # scaling

\* History only: which case of the claims a Render step is.
\*   "same"    a repeated measurement: nothing but an unchanged viewport size
\*   "resize"  a viewport-only resize with nothing else waiting
\*   "fit"     the fit effect took the initial cover fit branch
\*   "zoom"    one queued applyScale update and nothing else
RenderKind(vs1, ns1, fitUpdates) ==
    LET quiet == queue = <<>> /\ pendNatural = NoSize /\ hostScaling = scaling
    IN  IF quiet /\ pendViewport = viewportSize THEN "same"
        ELSE IF quiet /\ isTransformReady /\ isReady(vs1, ns1)
                /\ fitUpdates = <<resizeBranch(lastViewportRef, vs1, ns1, transform)>>
                /\ lastViewportRef = viewportSize /\ vs1 # viewportSize THEN "resize"
        ELSE IF isReady(vs1, ns1) /\ fitUpdates = <<fitBranch(vs1, ns1)>> THEN "fit"
        ELSE IF Len(queue) = 1 /\ queue[1].kind = "applyScale" /\ pendViewport = NoSize
                /\ pendNatural = NoSize /\ hostScaling = scaling THEN "zoom"
        ELSE "other"

\* A render: commits the queued updates (their closures hold the sizes of
\* the previous render), then runs the effects whose dependencies changed
\* (fit, host scaling, zoom multiplier sync), commits the updates they
\* queue and runs the sync effect again if that changed transform.scale.
\* The part of a render that retires the scheduled work: the queued updaters
\* are consumed, the pending measurements and the host's scaling input become
\* the rendered ones.
dirtyVars == <<queue, pendViewport, pendNatural, scaling>>

RenderCommit ==
    /\ Dirty
    /\ queue' = <<>>
    /\ pendViewport' = NoSize
    /\ pendNatural' = NoSize
    /\ scaling' = hostScaling

Render ==
    /\ RenderCommit
    /\ LET vs1 == IF pendViewport # NoSize THEN pendViewport ELSE viewportSize
           ns1 == IF pendNatural # NoSize THEN pendNatural ELSE naturalSize
           t1  == ApplyQueue(viewportSize, naturalSize, transform, queue)
           fit == IF sizeDepsChanged(viewportSize, naturalSize, vs1, ns1)
                  THEN fitEffect(vs1, ns1, lastViewportRef, lastNaturalRef, t1)
                  ELSE [updates |-> <<>>, lastViewport |-> lastViewportRef,
                        lastNatural |-> lastNaturalRef]
           sce == IF scalingDepsChanged(viewportSize, naturalSize, scaling, vs1, ns1, hostScaling)
                  THEN scalingEffect(vs1, ns1, hostScaling)
                  ELSE <<>>
           t2  == ApplyQueue(vs1, ns1, t1, fit.updates \o sce)
           z1  == IF syncDepsChanged(viewportSize, naturalSize, transform, vs1, ns1, t1)
                  THEN syncEffect(vs1, ns1, t1, zoomMultiplier)
                  ELSE zoomMultiplier
           z2  == IF syncDepsChanged(vs1, ns1, t1, vs1, ns1, t2)
                  THEN syncEffect(vs1, ns1, t2, z1)
                  ELSE z1
       IN  /\ viewportSize' = vs1
           /\ naturalSize' = ns1
           /\ transform' = t2
           /\ zoomMultiplier' = z2
           /\ lastViewportRef' = fit.lastViewport
           /\ lastNaturalRef' = fit.lastNatural
           /\ shownSrc' = IF pendNatural = NoSize THEN shownSrc
                          ELSE IF pendNatural = <<0, 0>> THEN 0 ELSE loadSrc
           /\ lastRender' = RenderKind(vs1, ns1, fit.updates)
    /\ UNCHANGED <<imageSrc, loadPending, hostScaling, panRef, steps, loadSrc>>
    /\ UNCHANGED <<configVars, gestureVars, lastWheel, auxVars>>

Next ==
    \/ ResizeNotify
    \/ HostSetScaling
    \/ HostSetImage
    \/ ImageLoad
    \/ Wheel
    \/ WheelNotReady
    \/ PointerDown
    \/ PointerMove
    \/ PointerUp
    \/ Render

Spec == Init /\ [][Next]_vars

(***************************************************************************)
(* Repeated zoom-out from a fitted image.  The control has mounted, the    *)
(* host has bound image src and its load has been rendered, so the         *)
(* transform is the cover fit (scale = baseScale).  From there only wheel  *)
(* zoom-out events arrive, without a bound on their number, and React      *)
(* renders every queued update.                                            *)
(***************************************************************************)
ZoomOutFactors == {Q(1, 2), Q(4, 5)}
ZoomOutPos == {<<200, 100>>}

\* The rectangle the crop initialisation effect stores when cropping is
\* active and there is no crop yet: defaultCrop converted to viewport px,
\* else completedCrop converted, else the centred 200 x 200 box.
cropFallback(dc, cc, t, vs, ns) ==
    IF dc # NoCrop /\ QLt(I(0), dc.width) /\ QLt(I(0), dc.height)
    THEN imageCropToViewportPx(dc, ns[1], ns[2], t.scale, t.translateX, t.translateY, vs[1], vs[2])
    ELSE IF cc # NoCrop /\ QLt(I(0), cc.width) /\ QLt(I(0), cc.height)
    THEN [unit |-> "px",
          x |-> QAdd(QMul(cc.x, t.scale), t.translateX),
          y |-> QAdd(QMul(cc.y, t.scale), t.translateY),
          width |-> QMul(cc.width, t.scale),
          height |-> QMul(cc.height, t.scale)]
    ELSE defaultViewportCrop200(vs[1], vs[2])

\* The crop state once the crop initialisation effect has run on a fitted
\* image for a host that bound no default crop: a crop exists exactly when
\* cropping is enabled.
FreshCrop ==
    /\ defaultCrop = NoCrop
    /\ completedCrop = NoCrop
    /\ cropBeforeOff = NoCrop
    /\ cropIsViewportSpaceRef = enableCropping
    /\ crop = IF enableCropping
              THEN cropFallback(NoCrop, NoCrop, transform, viewportSize, naturalSize)
              ELSE NoCrop

FittedStore(v, src) ==
    LET ns  == NaturalOf(src)
        fit == fitBranch(v, ns)
    IN  /\ imageSrc = src
        /\ loadPending = FALSE
        /\ viewportSize = v
        /\ naturalSize = ns
        /\ pendViewport = NoSize
        /\ pendNatural = NoSize
        /\ hostScaling = I(1)
        /\ scaling = I(1)
        /\ transform = [scale |-> fit.scale, translateX |-> fit.x, translateY |-> fit.y]
        /\ queue = <<>>
        /\ lastViewportRef = v
        /\ lastNaturalRef = ns
        /\ loadSrc = src
        /\ shownSrc = src
        /\ lastRender = "fit"
        /\ zoomMultiplier = I(1)
        /\ lastWheel = "none"
        /\ exports = <<>>
        /\ cropResults = NoResult
        /\ internalImageDataUrl = 0
        /\ overrideHostImage = FALSE
        /\ lastHostImageSignature = hostSig(src)
        /\ lastClearToken = 0
        /\ hostImageInput = src

\* No pointer is down and no gesture anchor is held.
IdleGesture ==
    /\ panRef = NoPan
    /\ isPanMode = FALSE
    /\ pointers = 0
    /\ hoverPointers = 0
    /\ captured = 0
    /\ pinchRef = NoPinch
    /\ lastDown = "none"
    /\ downOnCrop = FALSE

FittedCore(v, src) == FittedStore(v, src) /\ IdleGesture /\ FreshCrop

\* The host configuration Init starts from.
DefaultConfig ==
    /\ enablePanImage = TRUE
    /\ shiftToPanEnabled = FALSE
    /\ enableCropping = FALSE
    /\ hostLocked = FALSE
    /\ rotation = 0

\* The state of Spec after HostSetImage(src), ImageLoad and Render.
FittedAt(v, src) == DefaultConfig /\ FittedCore(v, src) /\ steps = 1

InitZoomOut == \E v \in Viewports, src \in ImageSrcs \ {0} : FittedAt(v, src)

\* handleWheel with deltaY > 0 (zoomFactor < 1).
WheelOut ==
    \E p \in ZoomOutPos, f \in ZoomOutFactors :
        /\ WheelAt(p, f)
        /\ UNCHANGED steps

NextZoomOut ==
    \/ WheelOut
    \/ Render

\* React renders whatever setState has scheduled: a render stays enabled
\* until it is taken (Dirty), so weak fairness on it.  In NextZoomOut a step
\* satisfies RenderCommit exactly when it is a Render step (WheelOut leaves
\* the queue non-empty).  Nothing obliges the user to keep turning the wheel:
\* that is a premise of the property, not fairness of the system.
SpecZoomOut == InitZoomOut /\ [][NextZoomOut]_vars /\ WF_dirtyVars(RenderCommit)

----------------------------------------------------------------------------
(* Properties.                                                             *)

\* Nothing waits for a render and the transform is ready.
ReadySettled == isTransformReady /\ ~Dirty

\* Cover scale and rendered sizes, written out from the sizes.
CoverOf(vs, ns) == QMax(Q(vs[1], ns[1]), Q(vs[2], ns[2]))
RenderedW(t) == QMul(I(naturalSize[1]), t.scale)
RenderedH(t) == QMul(I(naturalSize[2]), t.scale)

AxisCovered(viewport, r, translate) ==
    QLe(translate, I(0)) /\ QLe(I(viewport), QAdd(translate, r))

AxisCentred(viewport, r, translate) ==
    QLt(r, I(viewport)) /\ translate = QDiv(QSub(I(viewport), r), I(2))

\* C1: in every settled ready state each axis is either covered
\* (translate <= 0 and translate + img*scale >= viewport) or the rendered
\* image is smaller than the viewport and exactly centred on that axis.
InvC1 ==
    ReadySettled =>
        /\ \/ AxisCovered(viewportSize[1], RenderedW(transform), transform.translateX)
           \/ AxisCentred(viewportSize[1], RenderedW(transform), transform.translateX)
        /\ \/ AxisCovered(viewportSize[2], RenderedH(transform), transform.translateY)
           \/ AxisCentred(viewportSize[2], RenderedH(transform), transform.translateY)

\* Witness of C1: a settled ready state, zoomed out below cover, whose image
\* is narrower than the viewport and centred on the x axis.
WitC1 ==
    /\ ReadySettled
    /\ AxisCentred(viewportSize[1], RenderedW(transform), transform.translateX)
    /\ lastRender = "zoom"

\* C2 (as claimed): in every settled ready state the image covers the
\* viewport on both axes; the smaller-than-viewport case never occurs.
InvC2 ==
    ReadySettled =>
        /\ AxisCovered(viewportSize[1], RenderedW(transform), transform.translateX)
        /\ AxisCovered(viewportSize[2], RenderedH(transform), transform.translateY)

\* C3: in every settled ready state the stored scale lies in
\* [0.4 * cover, 3.0 * cover] for the current viewport and image sizes.
InvC3 ==
    ReadySettled =>
        LET base == CoverOf(viewportSize, naturalSize)
        IN  /\ QLe(QMul(Q(2, 5), base), transform.scale)
            /\ QLe(transform.scale, QMul(I(3), base))

\* Witness of C3: a settled ready state whose scale a zoom-in has driven to
\* the ceiling 3.0 * cover.
WitC3 ==
    /\ ReadySettled
    /\ lastRender = "zoom"
    /\ transform.scale = QMul(I(3), CoverOf(viewportSize, naturalSize))

\* The relative zoom k = scale / baseScale of a transform.
RelZoom(vs, ns, t) == QDiv(t.scale, CoverOf(vs, ns))

\* A Render step that is a viewport-only resize of a settled ready transform
\* whose relative zoom lies in [0.4, 3.0].
ResizeStep ==
    /\ lastRender' = "resize"
    /\ Render
    /\ QLe(Q(2, 5), RelZoom(viewportSize, naturalSize, transform))
    /\ QLe(RelZoom(viewportSize, naturalSize, transform), I(3))

\* C4 (as claimed): after a viewport-only resize the settled scale is
\* clamp(k * baseScale_new, baseScale_new, maxScale_new), k = scale / baseScale_old.
PropC4 ==
    [][ResizeStep =>
          LET k       == RelZoom(viewportSize, naturalSize, transform)
              newBase == CoverOf(viewportSize', naturalSize')
          IN  transform'.scale =
                  QMax(newBase, QMin(QMul(I(3), newBase), QMul(k, newBase)))]_vars

\* C5 (as claimed): a viewport-only resize preserves the relative zoom,
\* scale_new / baseScale_new = scale_old / baseScale_old.
PropC5 ==
    [][ResizeStep =>
          RelZoom(viewportSize', naturalSize', transform') =
              RelZoom(viewportSize, naturalSize, transform)]_vars

\* C6: a Render that commits nothing but a resize measurement equal to the
\* viewport size already committed changes neither scale nor translate.
PropC6 ==
    [][(lastRender' = "same" /\ Render) => transform' = transform]_vars

\* Witness of C6: after such a repeated measurement the transform still
\* holds a user zoom that differs from the host scaling value.
WitC6 ==
    /\ ReadySettled
    /\ lastRender = "same"
    /\ RelZoom(viewportSize, naturalSize, transform) # scaling
    /\ QLe(Q(2, 5), scaling)

\* The cover fit: scale = coverScale, translate = centerTranslation.
CoverFit(vs, ns) ==
    LET s == CoverOf(vs, ns)
    IN  [scale |-> s,
         translateX |-> QDiv(QSub(I(vs[1]), QMul(I(ns[1]), s)), I(2)),
         translateY |-> QDiv(QSub(I(vs[2]), QMul(I(ns[2]), s)), I(2))]

\* C7 (as claimed): a Render that commits the load of an image source other
\* than the one shown leaves the cover fit of the new image (host scaling
\* at its default 1).
PropC7 ==
    [][(/\ Render
        /\ pendNatural # NoSize
        /\ pendNatural # <<0, 0>>
        /\ loadSrc # shownSrc
        /\ queue = <<>>
        /\ hostScaling = I(1)
        /\ isReady(viewportSize', naturalSize'))
       => transform' = CoverFit(viewportSize', naturalSize')]_vars

\* The scenario of C8: viewport 450x350, image 1920x1080, the initial fit
\* has just run and settled, host scaling at its default 1.
ScenarioC8 ==
    /\ viewportSize = <<450, 350>>
    /\ naturalSize = <<1920, 1080>>
    /\ lastRender = "fit"
    /\ scaling = I(1)
    /\ ~Dirty

\* C8 (amended): in the scenario scale = 350/1080, translateY = 0 (the image
\* fills the height edge to edge) and translateX = (450 - 1920*350/1080)/2,
\* which is negative (the image is wider and centred horizontally).
InvC8 ==
    ScenarioC8 =>
        /\ transform.scale = Q(350, 1080)
        /\ transform.translateY = I(0)
        /\ transform.translateX = Q(-775, 9)

\* Witness of C8: the scenario state.
WitC8 == ScenarioC8 /\ steps = 1

\* C8 (as claimed): in the scenario scale = 350/1080, translateY is negative
\* and translateX is approximately 0 (within one pixel).
CexC8 ==
    ScenarioC8 =>
        /\ transform.scale = Q(350, 1080)
        /\ QLt(transform.translateY, I(0))
        /\ QLe(I(-1), transform.translateX)
        /\ QLe(transform.translateX, I(1))

NoClampHit(t) ==
    /\ QLt(QSub(I(viewportSize[1]), RenderedW(t)), t.translateX)
    /\ QLt(t.translateX, I(0))
    /\ QLt(QSub(I(viewportSize[2]), RenderedH(t)), t.translateY)
    /\ QLt(t.translateY, I(0))

\* C10: a Render that commits one zoomAt(px, py, factor) and ends with no
\* clamp boundary hit keeps the image point under (px, py):
\* (px - tx') / scale' = (px - tx) / scale, and the same for y.
PropC10 ==
    [][(lastRender' = "zoom" /\ Render /\ NoClampHit(transform)')
       => LET px == queue[1].x
              py == queue[1].y
          IN  /\ QDiv(QSub(px, transform'.translateX), transform'.scale)
                     = QDiv(QSub(px, transform.translateX), transform.scale)
              /\ QDiv(QSub(py, transform'.translateY), transform'.scale)
                     = QDiv(QSub(py, transform.translateY), transform.scale)]_vars

\* Witness of C10: a zoom has been committed, the scale differs from the
\* cover scale and no clamp boundary binds the translate.
WitC10 ==
    /\ ReadySettled
    /\ lastRender = "zoom"
    /\ transform.scale # CoverOf(viewportSize, naturalSize)
    /\ NoClampHit(transform)

(***************************************************************************)
(* Pointer gestures.  A fitted 1920 x 1080 image in a 450 x 350 viewport   *)
(* under every host configuration of enablePanImage, useShiftToPanImage,   *)
(* enableCropping and locked; mouse and touch pointers go down, move and   *)
(* up, on the crop rectangle or elsewhere, and Shift is pressed and        *)
(* released.                                                               *)
(***************************************************************************)
GesturePos == {<<200, 100>>, <<230, 140>>}
PinchRatios == {Q(1, 2), I(2)}

InitGesture ==
    /\ enablePanImage \in BOOLEAN
    /\ shiftToPanEnabled \in BOOLEAN
    /\ enableCropping \in BOOLEAN
    /\ hostLocked \in BOOLEAN
    /\ rotation = 0
    /\ FittedCore(<<450, 350>>, 1)
    /\ steps = 0

\* A pointer goes down; it can land on the crop rectangle when there is one.
PointerDownAny ==
    \E p \in GesturePos, onCrop \in BOOLEAN :
        /\ onCrop => enableCropping
        /\ steps < MaxSteps
        /\ steps' = steps + 1
        /\ PointerDownAt(p, onCrop)

\* The factor of the pinch branch taken relative to the previous move
\* instead of the rendered scale.
pinchFactor_compound(pinch, ratio, scale) == ratio

\* The factor handlePointerMove passes to zoomAt in the pinch branch:
\* targetScale = initialScale * (dist / initialDistance), over the rendered
\* scale.
pinchFactor(pinch, ratio, scale) == QDiv(QMul(pinch.initialScale, ratio), scale)

\* handlePointerMove, pinch branch: the distance of the two pointers is now
\* ratio times the initial one; zoomAt(centerX, centerY, targetScale / scale).
PinchMove ==
    \E ratio \in PinchRatios :
        /\ steps < MaxSteps
        /\ steps' = steps + 1
        /\ pinchRef # NoPinch
        /\ pointers = 2
        /\ Len(queue) < MaxQueue
        /\ queue' = Append(queue, zoomAt(viewportSize, naturalSize, pinchRef.centerX, pinchRef.centerY,
                                         pinchFactor(pinchRef, ratio, transform.scale)))
        /\ UNCHANGED <<imageSrc, loadPending, viewportSize, naturalSize, pendViewport,
                       pendNatural, hostScaling, scaling, transform, lastViewportRef,
                       lastNaturalRef, panRef>>
        /\ UNCHANGED <<loadSrc, shownSrc, lastRender>>
        /\ UNCHANGED <<zoomMultiplier, configVars, gestureVars, lastWheel, auxVars>>

\* handlePointerCancel: the pointer leaves the map, both anchors are dropped.
PointerCancel ==
    /\ pointers > hoverPointers
    /\ pointers' = pointers - 1
    /\ captured' \in released(captured, pointers - hoverPointers)
    /\ panRef' = NoPan
    /\ pinchRef' = NoPinch
    /\ lastDown' = "none"
    /\ downOnCrop' = FALSE
    /\ UNCHANGED <<imageSrc, loadPending, viewportSize, naturalSize, pendViewport,
                   pendNatural, hostScaling, scaling, transform, queue,
                   lastViewportRef, lastNaturalRef>>
    /\ UNCHANGED <<steps, loadSrc, shownSrc, lastRender>>
    /\ UNCHANGED <<zoomMultiplier, configVars, isPanMode, hoverPointers, lastWheel, auxVars>>

\* setIsPanMode(value) from a key or mouse event.  These are discrete events:
\* React renders the new isPanMode before the next event is handled, so the
\* next handlers close over it; the transform updates queued by pointer moves
\* wait for their own render.
SetIsPanMode(value) ==
    /\ isPanMode' = value
    /\ UNCHANGED <<imageSrc, loadPending, viewportSize, naturalSize, pendViewport,
                   pendNatural, hostScaling, scaling, transform, queue,
                   lastViewportRef, lastNaturalRef, panRef>>
    /\ UNCHANGED <<steps, loadSrc, shownSrc, lastRender>>
    /\ UNCHANGED <<zoomMultiplier, configVars, pointers, hoverPointers, captured, pinchRef,
                   lastDown, downOnCrop, lastWheel, auxVars>>

\* window keydown with e.key = "Shift".
ShiftKeyDown == ~isPanMode /\ SetIsPanMode(TRUE)

\* window keyup with e.key = "Shift".
ShiftKeyUp == isPanMode /\ SetIsPanMode(FALSE)

\* clearPanModeOnLeave (onMouseLeave / onBlur of the viewport), no pointer
\* captured.
MouseLeave == isPanMode /\ pointers = 0 /\ SetIsPanMode(FALSE)

NextGesture ==
    \/ PointerDownAny
    \/ PointerMove
    \/ PinchMove
    \/ PointerUp
    \/ PointerCancel
    \/ ShiftKeyDown
    \/ ShiftKeyUp
    \/ MouseLeave
    \/ Render

SpecGesture == InitGesture /\ [][NextGesture]_vars

(***************************************************************************)
(* Zoom-out convergence.                                                   *)
(***************************************************************************)
MinScaleOf(vs, ns) == getScaleLimits(vs[1], vs[2], ns[1], ns[2]).minScale

\* The fitted states from which SpecZoomOut starts are states of Spec.
FittedReachable == \E v \in Viewports, src \in ImageSrcs \ {0} : FittedAt(v, src)

DegenerateViewports == {<<0, 0>>, <<0, 350>>}

\* The ResizeObserver callback: the control collapses or is shown again.
ResizeHidden == \E v \in DegenerateViewports \cup {<<450, 350>>} : ResizeTo(v)

NextDegenerate ==
    \/ ResizeHidden
    \/ HostSetScaling
    \/ HostSetImage
    \/ ImageLoad
    \/ Wheel
    \/ WheelNotReady
    \/ Render

SpecDegenerate == Init /\ [][NextDegenerate]_vars

DegenerateDims == {-1, 0, 450}

Finite(q) == q[2] > 0
Positive(q) == q[1] > 0 /\ q[2] > 0

\* C14: a viewport or native dimension of 0 (or less) never produces a stored
\* scale of 0 or a division by zero: getScaleLimits returns finite, strictly
\* positive minScale and maxScale for such inputs, getCoverScale returns 1
\* for a non-positive image dimension, and no step performs a fit or re-fit
\* while any dimension is non-positive (the transform only takes the updates
\* queued before, the fit effect's size refs stay).
PropC14 ==
    /\ [](/\ Positive(transform.scale)
          /\ Finite(transform.translateX)
          /\ Finite(transform.translateY)
          /\ Positive(zoomMultiplier)
          /\ \A vw, vh, iw, ih \in DegenerateDims :
                /\ (vw <= 0 \/ vh <= 0 \/ iw <= 0 \/ ih <= 0) =>
                       /\ Positive(getScaleLimits(vw, vh, iw, ih).minScale)
                       /\ Positive(getScaleLimits(vw, vh, iw, ih).maxScale)
                /\ (iw <= 0 \/ ih <= 0) => getCoverScale(vw, vh, iw, ih) = I(1))
    /\ [][~isReady(viewportSize', naturalSize') =>
             /\ lastViewportRef' = lastViewportRef
             /\ lastNaturalRef' = lastNaturalRef
             /\ transform' = ApplyQueue(viewportSize, naturalSize, transform, queue)]_vars

\* A fitted, zoomed image whose viewport then collapsed to zero width: the
\* render of the collapse kept the transform.
WitC14 ==
    /\ viewportSize[1] = 0
    /\ naturalSize[1] > 0
    /\ ~Dirty
    /\ lastRender = "other"
    /\ lastViewportRef[1] > 0
    /\ transform.scale = QMul(Q(1, 2), CoverOf(lastViewportRef, naturalSize))

(***************************************************************************)
(* Coordinate conversion.                                                  *)
(***************************************************************************)
\* Viewport-space crop rectangles the crop widget can hold: the default box,
\* a box in the top-left corner, a box dragged to the right, the whole
\* viewport.
CropRects(vs) ==
    { defaultViewportCrop200(vs[1], vs[2]),
      [unit |-> "px", x |-> I(0), y |-> I(0), width |-> I(100), height |-> I(100)],
      [unit |-> "px", x |-> Q(401, 2), y |-> I(50), width |-> Q(301, 3), height |-> I(120)],
      [unit |-> "px", x |-> I(0), y |-> I(0), width |-> I(vs[1]), height |-> I(vs[2])] }

\* r lies fully within the rendered image: the clamps of
\* viewportCropToNaturalPx do not engage.
WithinImage(r, t) ==
    /\ QLe(t.translateX, r.x)
    /\ QLe(t.translateY, r.y)
    /\ QLe(QAdd(r.x, r.width), QAdd(t.translateX, RenderedW(t)))
    /\ QLe(QAdd(r.y, r.height), QAdd(t.translateY, RenderedH(t)))

RoundTrip(r, t) ==
    imageCropToViewportPx(
        viewportCropToNaturalPx(r, t.scale, t.translateX, t.translateY, naturalSize[1], naturalSize[2]),
        naturalSize[1], naturalSize[2], t.scale, t.translateX, t.translateY,
        viewportSize[1], viewportSize[2])

\* C12: for a viewport-space rectangle r fully within the rendered image and
\* a transform with scale > 0, viewportCropToNaturalPx followed by
\* imageCropToViewportPx with the same transform returns r.
InvC12 ==
    isTransformReady =>
        \A r \in CropRects(viewportSize) :
            (QLt(I(0), transform.scale) /\ WithinImage(r, transform)) => RoundTrip(r, transform) = r

\* A zoomed, shifted image with a rectangle inside it and another one that
\* reaches outside it (for which the clamps engage and the round trip loses).
WitC12 ==
    /\ isTransformReady
    /\ lastRender = "zoom"
    /\ transform.translateX # I(0)
    /\ transform.translateY # I(0)
    /\ transform.scale # CoverOf(viewportSize, naturalSize)
    /\ \E r \in CropRects(viewportSize) :
           /\ r.x # I(0)
           /\ WithinImage(r, transform)
           /\ RoundTrip(r, transform) = r
    /\ \E r \in CropRects(viewportSize) :
           /\ ~WithinImage(r, transform)
           /\ RoundTrip(r, transform) # r

(***************************************************************************)
(* Published zoom multiplier.                                              *)
(***************************************************************************)
\* clamp(transform.scale / baseScale, 0.4, 3.0) for the current dimensions.
NormalisedZoom(vs, ns, t) ==
    LET raw == QDiv(t.scale, CoverOf(vs, ns))
    IN  IF QLt(raw, Q(2, 5)) THEN Q(2, 5) ELSE IF QLt(I(3), raw) THEN I(3) ELSE raw

\* C13: whenever the transform is ready and every zoom source (wheel, host
\* scaling, image load, viewport resize) has been rendered and the effects
\* have settled, the value last published through onZoomMultiplierChange
\* (what getOutputs().zoomMultiplier returns) is
\* clamp(transform.scale / baseScale, 0.4, 3.0) for the current dimensions.
InvC13 == ReadySettled => zoomMultiplier = NormalisedZoom(viewportSize, naturalSize, transform)

\* A wheel zoom-out to half the cover scale has been rendered and published.
WitC13 ==
    /\ ReadySettled
    /\ lastRender = "zoom"
    /\ lastWheel = "prevented"
    /\ transform.scale = QMul(Q(1, 2), CoverOf(viewportSize, naturalSize))
    /\ zoomMultiplier = Q(1, 2)

(***************************************************************************)
(* Input arbitration.                                                      *)
(***************************************************************************)
\* The step is a pointer-down of a single pointer.
SingleDown == pointers = 0 /\ pointers' = 1

InvC16 ==
    (/\ enablePanImage
     /\ ~shiftToPanEnabled
     /\ enableCropping
     /\ ~hostLocked
     /\ pointers = 1
     /\ lastDown # "none") =>
        IF downOnCrop THEN lastDown = "unclaimed" /\ ~cropLocked
        ELSE lastDown = "pan"

\* The arbiter's states: a pan anchor is held; a pinch anchor is held with
\* two pointers down.
Panning == panRef # NoPan
Pinching == pinchRef # NoPinch /\ pointers = 2

\* C17: in every state in which the arbiter is Panning or Pinching, crop
\* editing is suppressed: the crop widget is locked.
InvC17 == (Panning \/ Pinching) => cropLocked

\* C18: once Shift is released (or the mouse has left) during a Shift-gated
\* pan drag, the pointer moves of that drag change the translate no more: no
\* step queues a transform update while the pan anchor is held with the
\* Shift flag cleared.
PropC18 ==
    [][(shiftToPanEnabled /\ ~isPanMode /\ panRef # NoPan) => Len(queue') <= Len(queue)]_vars

(***************************************************************************)
(* Wheel.                                                                  *)
(***************************************************************************)
\* C19: every wheel event delivered over the control has the default scroll
\* suppressed (preventDefault is called), also when the transform is not
\* ready: no wheel event is left with its default action.
InvC19 == lastWheel # "default"

(***************************************************************************)
(* Export.                                                                 *)
(***************************************************************************)
\* The native coordinate drawn at canvas coordinate c of an export e made at
\* scale sc (drawImage maps native u to d + u * sc).
NativeAt(c, d, sc) == QDiv(QSub(I(c), d), sc)

\* C20: in pan/zoom-active mode with viewport crop rectangle r and transform
\* t, the export canvas is round(r.width) x round(r.height) and the full
\* native image is drawn at destination offset
\* (t.translateX - r.x, t.translateY - r.y) with destination size
\* (nativeW * t.scale, nativeH * t.scale); and r = {50, 50, 100, 100} with
\* t = {scale 1, translate 0, 0} over a 200 x 200 image gives a 100 x 100
\* canvas showing the native region [50,150) x [50,150).
InvC20 ==
    /\ LET e == exportViewport([x |-> I(50), y |-> I(50), width |-> I(100), height |-> I(100)],
                               [scale |-> I(1), translateX |-> I(0), translateY |-> I(0)], 200, 200)
       IN  /\ ~e.blank /\ e.width = 100 /\ e.height = 100
           /\ NativeAt(0, e.dx, I(1)) = I(50) /\ NativeAt(100, e.dx, I(1)) = I(150)
           /\ NativeAt(0, e.dy, I(1)) = I(50) /\ NativeAt(100, e.dy, I(1)) = I(150)
           /\ e.dw = I(200) /\ e.dh = I(200)
    /\ isTransformReady =>
          \A r \in CropRects(viewportSize) :
              LET e == exportViewport(r, transform, naturalSize[1], naturalSize[2])
              IN  ~e.blank =>
                     /\ e.width = Round(r.width)
                     /\ e.height = Round(r.height)
                     /\ e.dx = QSub(transform.translateX, r.x)
                     /\ e.dy = QSub(transform.translateY, r.y)
                     /\ e.dw = QMul(I(naturalSize[1]), transform.scale)
                     /\ e.dh = QMul(I(naturalSize[2]), transform.scale)

(***************************************************************************)
(* Zoom calls between two renders.                                         *)
(***************************************************************************)
\* The scale zoomAt proposes from scale s with factor f, clamped to the
\* limits of the sizes vs, ns.
ClampedZoom(vs, ns, s, f) ==
    LET lim == getScaleLimits(vs[1], vs[2], ns[1], ns[2])
    IN  QMax(lim.minScale, QMin(lim.maxScale, QMul(s, f)))

\* The zoom factors a queued zoomAt update u can have come from, given the
\* transform it was computed against.
FactorsOf(u) ==
    {f \in ZoomFactors : ClampedZoom(viewportSize, naturalSize, transform.scale, f) = u.scale}

\* A render that commits two wheel zooms and nothing else.
TwoZooms ==
    /\ Len(queue) = 2
    /\ queue[1].kind = "applyScale"
    /\ queue[2].kind = "applyScale"
    /\ pendViewport = NoSize
    /\ pendNatural = NoSize
    /\ hostScaling = scaling

\* C25 (as claimed): two zoomAt calls made before the next render leave the
\* scale of the sequential application s := clamp(s * f1), s := clamp(s * f2):
\* the second factor is applied to the scale the first call produced.
PropC25 ==
    [][(TwoZooms /\ Render)
       => \E f \in FactorsOf(queue[2]) :
            transform'.scale = ClampedZoom(viewportSize, naturalSize, queue[1].scale, f)]_vars

(***************************************************************************)
(* Pan drags and wheel zooms on a fitted image.  The control shows image 1 *)
(* cover-fitted in a 450 x 350 viewport with pan permitted (the state of   *)
(* Spec after the load was rendered); the user drags with one pointer and  *)
(* turns the wheel, and React renders the queued updates at any point in   *)
(* between.                                                                *)
(***************************************************************************)
InitPan == DefaultConfig /\ FittedCore(<<450, 350>>, 1) /\ steps = 0

NextPan ==
    \/ PointerDown
    \/ PointerMove
    \/ Wheel
    \/ PointerUp
    \/ Render

SpecPan == InitPan /\ [][NextPan]_vars

\* The transform the store holds once the first n queued updates are applied.
StoredAfter(n) == ApplyQueue(viewportSize, naturalSize, transform, SubSeq(queue, 1, n))

\* C26 (as claimed): a pan-drag move (the value setTransformDirect queues)
\* leaves the scale the store holds immediately before it, also when a wheel
\* zoom was applied between the drag's pointer-down and that move.
InvC26 ==
    \A i \in 1..Len(queue) :
        queue[i].kind = "set" => StoredAfter(i).scale = StoredAfter(i - 1).scale

(***************************************************************************)
(* A pinch in progress.  Image 1 is cover-fitted in a 450 x 350 viewport   *)
(* and two fingers are down: the second pointer-down has recorded the      *)
(* pinch anchor with the fitted scale.  The fingers move apart and         *)
(* together, the wheel turns, fingers lift and come down again, and React  *)
(* renders the queued updates at any point in between.                     *)
(***************************************************************************)
InitPinch ==
    /\ FittedStore(<<450, 350>>, 1)
    /\ DefaultConfig
    /\ FreshCrop
    /\ steps = 0
    /\ panRef = NoPan
    /\ isPanMode = FALSE
    /\ pointers = 2
    /\ hoverPointers = 0
    /\ captured = 2
    /\ \E p \in GesturePos :
         pinchRef = [initialScale |-> transform.scale, centerX |-> I(p[1]), centerY |-> I(p[2])]
    /\ lastDown = "pinch"
    /\ downOnCrop = FALSE

NextPinch ==
    \/ PinchMove
    \/ Wheel
    \/ PointerUp
    \/ PointerDownAny
    \/ Render

SpecPinch == InitPinch /\ [][NextPinch]_vars

\* The queued update u is what a pinch move at distance ratio queues now.
IsPinchUpdate(u, ratio) ==
    u = zoomAt(viewportSize, naturalSize, pinchRef.centerX, pinchRef.centerY,
               pinchFactor(pinchRef, ratio, transform.scale))

\* C27: while Pinching with two pointers down, a render whose last queued
\* update is a pinch move at distance ratio r (currentDistance /
\* initialDistance) leaves scale = clamp(initialScale * r, minScale,
\* maxScale), whatever the scale was before the move (no compounding); and
\* when that move is the only update and no clamp boundary binds the result,
\* the image point under the recorded gesture centre stays under it.
PropC27 ==
    [][(Pinching /\ queue # <<>> /\ pendViewport = NoSize /\ pendNatural = NoSize
        /\ hostScaling = scaling /\ Render)
       => \A r \in PinchRatios :
            IsPinchUpdate(queue[Len(queue)], r)
            => /\ transform'.scale = ClampedZoom(viewportSize, naturalSize, pinchRef.initialScale, r)
               /\ (Len(queue) = 1 /\ NoClampHit(transform)')
                  => /\ QDiv(QSub(pinchRef.centerX, transform'.translateX), transform'.scale)
                        = QDiv(QSub(pinchRef.centerX, transform.translateX), transform.scale)
                     /\ QDiv(QSub(pinchRef.centerY, transform'.translateY), transform'.scale)
                        = QDiv(QSub(pinchRef.centerY, transform.translateY), transform.scale)]_vars

\* Witness of C27: two pinch moves have been rendered and the scale is twice
\* the scale recorded at pinch start, different from the scale before the
\* last move was made.
WitC27 ==
    /\ Pinching
    /\ ~Dirty
    /\ steps >= 2
    /\ lastWheel = "none"
    /\ lastDown = "pinch"
    /\ transform.scale = QMul(pinchRef.initialScale, I(2))
    /\ NoClampHit(transform)

(***************************************************************************)
(* Pan by total displacement.                                              *)
(***************************************************************************)
\* The queued update u is what a pan move to pointer position p queues now.
IsPanUpdate(u, p) ==
    u = setTransformDirect(viewportSize, naturalSize, panTarget(panRef, p[1], p[2], transform))

\* C28: while Panning, a render whose last queued update is the pan move to
\* pointer position p leaves translate = clampTranslation(startTranslate +
\* (p - startClient)) at the scale it leaves, whatever moves were made and
\* rendered before: the translate depends only on the anchor recorded at
\* pointer-down and on the latest position, and the scale is the rendered one.
PropC28 ==
    [][(Panning /\ queue # <<>> /\ Render)
       => \A p \in PointerPos :
            IsPanUpdate(queue[Len(queue)], p)
            => LET c == clampTranslation(viewportSize[1], viewportSize[2],
                                         naturalSize[1], naturalSize[2], transform'.scale,
                                         QAdd(panRef.startTx, I(p[1] - panRef.startX)),
                                         QAdd(panRef.startTy, I(p[2] - panRef.startY)))
               IN  /\ transform'.translateX = c.translateX
                   /\ transform'.translateY = c.translateY
                   /\ transform'.scale = transform.scale]_vars

\* Witness of C28: a drag that began at (0, 0) on the fitted image has moved,
\* the moves are rendered, a second move brought the pointer to (200, 100),
\* and the translate is the one recorded at pointer-down plus (200, 100),
\* clamped, which is not the translate the first move left.
WitC28 ==
    /\ Panning
    /\ ~Dirty
    /\ steps = 3
    /\ lastWheel = "none"
    /\ panRef.startX = 0
    /\ panRef.startTx = Q(-775, 9)
    /\ transform.translateX = I(0)
    /\ transform.scale = Q(35, 108)

(***************************************************************************)
(* The active-pointer map.  Image 1 is cover-fitted in a 450 x 350         *)
(* viewport with pan permitted.  Touch pointers go down, move, lift and    *)
(* are cancelled; a mouse button pressed with the primary button can be    *)
(* released last with another button (chorded buttons: the pointerup event *)
(* then carries e.button !== 0); and a pointer that is not pressed (a      *)
(* mouse hovering) moves over the viewport.                                *)
(***************************************************************************)
\* Pointers currently pressed on the viewport.
Pressed == pointers - hoverPointers

\* handlePointerUp with e.button !== 0: the pointer leaves the map and the
\* capture is released; the anchors are left as they are.
PointerUpSecondary ==
    /\ pointers > hoverPointers
    /\ pointers' = pointers - 1
    /\ captured' \in released(captured, Pressed)
    /\ lastDown' = "none"
    /\ downOnCrop' = FALSE
    /\ UNCHANGED <<imageSrc, loadPending, viewportSize, naturalSize, pendViewport,
                   pendNatural, hostScaling, scaling, transform, queue,
                   lastViewportRef, lastNaturalRef, panRef, pinchRef>>
    /\ UNCHANGED <<steps, loadSrc, shownSrc, lastRender>>
    /\ UNCHANGED <<zoomMultiplier, configVars, isPanMode, hoverPointers, lastWheel, auxVars>>

\* handlePointerMove for a pointer that is not pressed and not yet in the
\* map, at p: the handler enters it in the map, then takes the pinch branch
\* (two pointers in the map and a pinch anchor), the pan branch (a pan
\* anchor) or returns.
HoverMove ==
    \E p \in GesturePos, ratio \in PinchRatios :
        /\ isTransformReady
        /\ steps < MaxSteps
        /\ steps' = steps + 1
        /\ hoverPointers = 0
        /\ pointers < MaxPointers
        /\ pointers' = pointers + 1
        /\ hoverPointers' = 1
        /\ IF pinchRef # NoPinch /\ pointers + 1 = 2
           THEN /\ Len(queue) < MaxQueue
                /\ queue' = Append(queue, zoomAt(viewportSize, naturalSize, pinchRef.centerX,
                                                 pinchRef.centerY,
                                                 pinchFactor(pinchRef, ratio, transform.scale)))
           ELSE IF panRef # NoPan
           THEN /\ Len(queue) < MaxQueue
                /\ queue' = Append(queue, setTransformDirect(viewportSize, naturalSize,
                                                 panTarget(panRef, p[1], p[2], transform)))
           ELSE UNCHANGED queue
        /\ UNCHANGED <<imageSrc, loadPending, viewportSize, naturalSize, pendViewport,
                       pendNatural, hostScaling, scaling, transform, lastViewportRef,
                       lastNaturalRef, panRef>>
        /\ UNCHANGED <<loadSrc, shownSrc, lastRender>>
        /\ UNCHANGED <<zoomMultiplier, configVars, isPanMode, captured, pinchRef, lastDown,
                       downOnCrop, lastWheel, auxVars>>

InitPointers == DefaultConfig /\ FittedCore(<<450, 350>>, 1) /\ steps = 0

NextPointers ==
    \/ PointerDownAny
    \/ PointerMove
    \/ PinchMove
    \/ PointerUp
    \/ PointerUpSecondary
    \/ PointerCancel
    \/ HoverMove
    \/ Render

SpecPointers == InitPointers /\ [][NextPointers]_vars

\* C29 (as claimed): a step in which a pressed pointer goes up or is
\* cancelled takes it out of the map and ends the pan; it ends the pinch
\* when fewer than two pointers remain in the map; and when it was the last
\* pressed pointer, neither a pan anchor nor a pinch anchor is left.
PropC29 ==
    [][(Pressed' < Pressed)
       => /\ pointers' = pointers - 1
          /\ panRef' = NoPan
          /\ pointers' < 2 => pinchRef' = NoPinch
          /\ Pressed' = 0 => (panRef' = NoPan /\ pinchRef' = NoPinch)]_vars

\* C30 (as claimed): the active-pointer map holds exactly the pointers
\* currently pressed, at most two of them counted in a pinch: no pointer is
\* in the map without being pressed, and Pinching holds only with two
\* pointers pressed.
InvC30 ==
    /\ hoverPointers = 0
    /\ Pinching => Pressed = 2

(***************************************************************************)
(* Export requests.  Every run of the useCropToBase64 effect is an export  *)
(* request.  A request finds the image element or not, takes the viewport  *)
(* path (its drawing deferred to an animation frame, which the next run's  *)
(* cleanup cancels) or the display-space path, and starts an encoding      *)
(* (canvas.toBlob, then FileReader) whose completion calls onCropComplete. *)
(* Encodings of different requests run in parallel and complete in any     *)
(* order.  A request is a record                                           *)
(*   path       "viewport" or "display"                                    *)
(*   image      imgRef.current was set when the effect ran                 *)
(*   collapsed  the crop rectangle it read had width <= 0 or height <= 0   *)
(*   status     "frame"      waiting for its animation frame               *)
(*              "encoding"   toBlob / FileReader in progress               *)
(*              "blank"      delivered the placeholder                     *)
(*              "raster"     delivered the encoded raster                  *)
(*              "cancelled"  its animation frame was cancelled             *)
(*              "stale"      image gone or of another size at the frame    *)
(*              "noctx"      canvas.getContext returned null               *)
(*              "noblob"     toBlob produced null                          *)
(***************************************************************************)
MaxRequests == 3

ExportPaths == {"viewport", "display"}

\* The effect body for a request: where it stands when the effect returns.
requestOutcome(image, path, collapsed, ctx) ==
    IF ~image THEN "blank"
    ELSE IF path = "viewport" THEN "frame"
    ELSE IF collapsed THEN "blank"
    ELSE IF ~ctx THEN "noctx"
    ELSE "encoding"

\* The animation frame callback without the test of the rounded size.
frameOutcome_noSizeGuard(imgSame, collapsed, ctx) ==
    IF ~imgSame THEN "stale"
    ELSE IF ~ctx THEN "noctx"
    ELSE "encoding"

\* The animation frame callback of the viewport path.
frameOutcome(imgSame, collapsed, ctx) ==
    IF ~imgSame THEN "stale"
    ELSE IF collapsed THEN "blank"
    ELSE IF ~ctx THEN "noctx"
    ELSE "encoding"

\* index.ts onCropComplete: _cropResults = results.
onCropComplete(req, kind) == [req |-> req, kind |-> kind]

\* The cleanup of the previous effect run: cancelAnimationFrame(raf).
cleanup(reqs) ==
    [r \in 1..Len(reqs) |->
        IF reqs[r].status = "frame" THEN [reqs[r] EXCEPT !.status = "cancelled"] ELSE reqs[r]]

\* The effect runs again (a dependency changed): cleanup, then the body.
ExportRequest ==
    \E image \in BOOLEAN, path \in ExportPaths, collapsed \in BOOLEAN, ctx \in BOOLEAN :
        LET n   == Len(exports) + 1
            out == requestOutcome(image, path, collapsed, ctx)
            rec == [path |-> path, image |-> image,
                    collapsed |-> image /\ path = "display" /\ collapsed, status |-> out]
        IN  /\ Len(exports) < MaxRequests
            /\ exports' = Append(cleanup(exports), rec)
            /\ cropResults' = IF out = "blank" THEN onCropComplete(n, "blank") ELSE cropResults
            /\ UNCHANGED <<imageSrc, loadPending, viewportSize, naturalSize, pendViewport,
                           pendNatural, hostScaling, scaling, transform, queue,
                           lastViewportRef, lastNaturalRef, panRef>>
            /\ UNCHANGED <<steps, loadSrc, shownSrc, lastRender>>
            /\ UNCHANGED <<zoomMultiplier, configVars, gestureVars, lastWheel, cropVars, sourceVars>>

\* The animation frame of the request waiting for it.
AnimationFrame ==
    \E r \in 1..Len(exports), imgSame \in BOOLEAN, collapsed \in BOOLEAN, ctx \in BOOLEAN :
        LET out == frameOutcome(imgSame, collapsed, ctx)
        IN  /\ exports[r].status = "frame"
            /\ exports' = [exports EXCEPT ![r].status = out,
                                          ![r].collapsed = imgSame /\ collapsed]
            /\ cropResults' = IF out = "blank" THEN onCropComplete(r, "blank") ELSE cropResults
            /\ UNCHANGED <<imageSrc, loadPending, viewportSize, naturalSize, pendViewport,
                           pendNatural, hostScaling, scaling, transform, queue,
                           lastViewportRef, lastNaturalRef, panRef>>
            /\ UNCHANGED <<steps, loadSrc, shownSrc, lastRender>>
            /\ UNCHANGED <<zoomMultiplier, configVars, gestureVars, lastWheel, cropVars, sourceVars>>

\* The encoding of a request completes: the toBlob callback and, with a
\* blob, reader.onloadend.
EncodeDone ==
    \E r \in 1..Len(exports), blob \in BOOLEAN :
        /\ exports[r].status = "encoding"
        /\ exports' = [exports EXCEPT ![r].status = IF blob THEN "raster" ELSE "noblob"]
        /\ cropResults' = IF blob THEN onCropComplete(r, "raster") ELSE cropResults
        /\ UNCHANGED <<imageSrc, loadPending, viewportSize, naturalSize, pendViewport,
                       pendNatural, hostScaling, scaling, transform, queue,
                       lastViewportRef, lastNaturalRef, panRef>>
        /\ UNCHANGED <<steps, loadSrc, shownSrc, lastRender>>
        /\ UNCHANGED <<zoomMultiplier, configVars, gestureVars, lastWheel, cropVars, sourceVars>>

NextExport ==
    \/ ExportRequest
    \/ AnimationFrame
    \/ EncodeDone

SpecExport == Init /\ [][NextExport]_vars

Delivered(r) == exports[r].status \in {"blank", "raster"}
InFlight(r) == exports[r].status \in {"frame", "encoding"}
Dropped(r) == exports[r].status \in {"cancelled", "stale", "noctx", "noblob"}

\* C21 (as claimed): every export request ends by delivering the
\* placeholder or a raster: no request ends without a delivery.
CexC21 == \A r \in 1..Len(exports) : ~Dropped(r)

\* C21 (amended): a request made with the image reference absent, and a
\* request that reads a crop rectangle of non-positive width or height (in
\* the animation frame of the viewport path, in the effect of the
\* display-space path), has delivered the placeholder; the placeholder or a
\* raster a request delivers is what the host holds right after; and a
\* request ends without any delivery only with the image present and the
\* rectangle not collapsed: its animation frame was cancelled by the next
\* request, the image was gone or of another natural size at the frame, no
\* 2D context was obtained, or the encoding gave no blob.
PropC21 ==
    /\ [](\A r \in 1..Len(exports) :
            /\ ~exports[r].image => exports[r].status = "blank"
            /\ exports[r].collapsed => exports[r].status = "blank"
            /\ Dropped(r) => exports[r].image /\ ~exports[r].collapsed)
    /\ [][\A r \in 1..Len(exports') :
            (Delivered(r)' /\ (r > Len(exports) \/ ~Delivered(r)))
            => cropResults' = onCropComplete(r, exports'[r].status)]_vars

\* Witness of C21: of three requests, the first found no image and
\* delivered the placeholder, the second found a collapsed rectangle in its
\* animation frame and delivered the placeholder, the third delivered a
\* raster.
WitC21 ==
    /\ Len(exports) = 3
    /\ ~exports[1].image /\ exports[1].status = "blank"
    /\ exports[2].path = "viewport" /\ exports[2].collapsed /\ exports[2].status = "blank"
    /\ exports[3].status = "raster"
    /\ cropResults = onCropComplete(3, "raster")

\* C22 (as claimed): the result the host holds comes from the most recent
\* request that delivered one: no earlier request's result has overwritten a
\* later request's.
InvC22 == \A r \in 1..Len(exports) : Delivered(r) => r <= cropResults.req

(***************************************************************************)
(* The crop rectangle under the host's enableCropping input.  Image 1 is   *)
(* cover-fitted in a 450 x 350 viewport, the control is visible, pan is    *)
(* not enabled (the crop widget is editable) and the legacy                *)
(* showCropByDefault input is off.  The host turns cropping on and off,    *)
(* with or without a default crop bound; the user edits the rectangle and  *)
(* zooms with the wheel.                                                   *)
(***************************************************************************)
\* Default crops the host can bind (image pixels), or none.
DefaultCrops ==
    { NoCrop,
      [unit |-> "px", x |-> I(480), y |-> I(270), width |-> I(960), height |-> I(540)] }

\* Rectangles the user leaves the crop widget at: a box in the top-left
\* corner, a box dragged to the right.
EditedCrops ==
    { [unit |-> "px", x |-> I(0), y |-> I(0), width |-> I(100), height |-> I(100)],
      [unit |-> "px", x |-> Q(401, 2), y |-> I(50), width |-> Q(301, 3), height |-> I(120)] }

\* usePanZoom = Boolean(showControl && isTransformReady), control visible.
usePanZoom == isTransformReady

\* isCroppingActive = enableCropping || showCropByDefault, the legacy input off.
isCroppingActive == enableCropping

\* cropToPass: the rectangle handed to the crop widget, NoCrop for undefined.
cropToPass ==
    IF ~usePanZoom
    THEN IF crop # NoCrop THEN crop
         ELSE [unit |-> "%", x |-> I(0), y |-> I(0), width |-> I(100), height |-> I(100)]
    ELSE IF ~isCroppingActive THEN NoCrop
    ELSE IF crop = NoCrop THEN defaultViewportCrop200(viewportSize[1], viewportSize[2])
    ELSE IF cropIsViewportSpaceRef THEN crop
    ELSE imageCropToViewportPx(crop, naturalSize[1], naturalSize[2], transform.scale,
                               transform.translateX, transform.translateY,
                               viewportSize[1], viewportSize[2])

\* The crop initialisation effect dropping the crop when cropping is off.
cropInitEffect_reset(active) ==
    IF ~active THEN [crop |-> NoCrop, ref |-> FALSE]
    ELSE IF ~usePanZoom \/ viewportSize[1] <= 0 \/ viewportSize[2] <= 0 \/ crop # NoCrop
    THEN [crop |-> crop, ref |-> cropIsViewportSpaceRef]
    ELSE [crop |-> cropFallback(defaultCrop, completedCrop, transform, viewportSize, naturalSize),
          ref |-> TRUE]

\* The crop initialisation effect with isCroppingActive = active: the crop
\* and cropIsViewportSpaceRef.current it leaves.
cropInitEffect(active) ==
    IF ~usePanZoom \/ ~active \/ viewportSize[1] <= 0 \/ viewportSize[2] <= 0 \/ crop # NoCrop
    THEN [crop |-> crop, ref |-> cropIsViewportSpaceRef]
    ELSE [crop |-> cropFallback(defaultCrop, completedCrop, transform, viewportSize, naturalSize),
          ref |-> TRUE]

\* The host changes the enableCropping input while no update is waiting:
\* React renders with the new value, the crop initialisation effect runs and
\* the crop it sets is rendered.
HostSetCropping ==
    \E value \in BOOLEAN :
        LET e == cropInitEffect(value)
        IN  /\ value # enableCropping
            /\ ~Dirty
            /\ enableCropping' = value
            /\ crop' = e.crop
            /\ cropIsViewportSpaceRef' = e.ref
            /\ cropBeforeOff' = IF value THEN cropBeforeOff ELSE cropToPass
            /\ UNCHANGED <<imageSrc, loadPending, viewportSize, naturalSize, pendViewport,
                           pendNatural, hostScaling, scaling, transform, queue,
                           lastViewportRef, lastNaturalRef, panRef>>
            /\ UNCHANGED <<steps, loadSrc, shownSrc, lastRender, zoomMultiplier>>
            /\ UNCHANGED <<enablePanImage, shiftToPanEnabled, hostLocked, rotation, gestureVars,
                           lastWheel>>
            /\ UNCHANGED <<sourceVars, exports, cropResults, completedCrop, defaultCrop>>

\* handleCropChange(c): the user drags or resizes the rectangle to c.
CropChange ==
    \E c \in EditedCrops :
        /\ usePanZoom
        /\ isCroppingActive
        /\ ~cropLocked
        /\ crop' = c
        /\ cropIsViewportSpaceRef' = TRUE
        /\ completedCrop' = viewportCropToNaturalPx(c, transform.scale, transform.translateX,
                                                    transform.translateY, naturalSize[1],
                                                    naturalSize[2])
        /\ UNCHANGED <<imageSrc, loadPending, viewportSize, naturalSize, pendViewport,
                       pendNatural, hostScaling, scaling, transform, queue,
                       lastViewportRef, lastNaturalRef, panRef>>
        /\ UNCHANGED <<steps, loadSrc, shownSrc, lastRender, zoomMultiplier>>
        /\ UNCHANGED <<configVars, gestureVars, lastWheel>>
        /\ UNCHANGED <<sourceVars, exports, cropResults, defaultCrop, cropBeforeOff>>

\* handleCropComplete(pixelCrop): the widget reports the rectangle it shows.
CropComplete ==
    /\ usePanZoom
    /\ isCroppingActive
    /\ ~cropLocked
    /\ completedCrop' = viewportCropToNaturalPx(cropToPass, transform.scale, transform.translateX,
                                                transform.translateY, naturalSize[1],
                                                naturalSize[2])
    /\ UNCHANGED <<imageSrc, loadPending, viewportSize, naturalSize, pendViewport,
                   pendNatural, hostScaling, scaling, transform, queue,
                   lastViewportRef, lastNaturalRef, panRef>>
    /\ UNCHANGED <<steps, loadSrc, shownSrc, lastRender, zoomMultiplier>>
    /\ UNCHANGED <<configVars, gestureVars, lastWheel>>
    /\ UNCHANGED <<sourceVars, exports, cropResults, crop, cropIsViewportSpaceRef, defaultCrop, cropBeforeOff>>

\* A wheel event over the middle of the image.
WheelMid ==
    \E f \in ZoomFactors :
        /\ steps < MaxSteps
        /\ steps' = steps + 1
        /\ WheelAt(<<200, 100>>, f)

InitCrop ==
    /\ enablePanImage = FALSE
    /\ shiftToPanEnabled = FALSE
    /\ enableCropping = FALSE
    /\ hostLocked = FALSE
    /\ rotation = 0
    /\ FittedStore(<<450, 350>>, 1)
    /\ IdleGesture
    /\ steps = 0
    /\ crop = NoCrop
    /\ completedCrop = NoCrop
    /\ cropIsViewportSpaceRef = FALSE
    /\ defaultCrop \in DefaultCrops
    /\ cropBeforeOff = NoCrop

NextCrop ==
    \/ HostSetCropping
    \/ CropChange
    \/ CropComplete
    \/ WheelMid
    \/ Render

SpecCrop == InitCrop /\ [][NextCrop]_vars

Centred70(vs) ==
    [unit |-> "px", x |-> Q(15 * vs[1], 100), y |-> Q(15 * vs[2], 100),
     width |-> Q(70 * vs[1], 100), height |-> Q(70 * vs[2], 100)]

\* The rectangle covering the whole control.
FullViewport(vs) ==
    [unit |-> "px", x |-> I(0), y |-> I(0), width |-> I(vs[1]), height |-> I(vs[2])]

\* C24 (as claimed): when cropping is first enabled in pan/zoom mode with no
\* crop yet, the stored rectangle is the host's default crop converted to
\* viewport px, else the last completed crop converted, else the rectangle
\* centred in the viewport with 70% of its size; it is never the full
\* control.
PropC24 ==
    [][(~enableCropping /\ enableCropping' /\ crop = NoCrop /\ usePanZoom)
       => /\ crop' = IF defaultCrop # NoCrop
                     THEN imageCropToViewportPx(defaultCrop, naturalSize[1], naturalSize[2],
                                                transform.scale, transform.translateX,
                                                transform.translateY, viewportSize[1],
                                                viewportSize[2])
                     ELSE IF completedCrop # NoCrop
                     THEN imageCropToViewportPx(completedCrop, naturalSize[1], naturalSize[2],
                                                transform.scale, transform.translateX,
                                                transform.translateY, viewportSize[1],
                                                viewportSize[2])
                     ELSE Centred70(viewportSize)
          /\ crop' # FullViewport(viewportSize)]_vars

(***************************************************************************)
(* One interpretation per pointer move.                                    *)
(***************************************************************************)
\* C31: at most one of the pan anchor and the pinch anchor is set, so a
\* pointer move takes the pinch branch, the pan branch or neither, never
\* two: Panning and Pinching exclude each other.
InvC31 ==
    /\ ~(panRef # NoPan /\ pinchRef # NoPinch)
    /\ ~(Panning /\ Pinching)

\* Witness of C31: a first finger had started a pan, a second finger came
\* down, and the control is Pinching with the pan anchor dropped.
WitC31 ==
    /\ Pinching
    /\ hoverPointers = 0
    /\ lastDown = "pinch"
    /\ panRef = NoPan

\* C32: every pointer that takes part in a pan or a pinch holds the pointer
\* capture of the viewport from the start of the gesture: both pressed
\* pointers of a pinch are captured, and so is the pointer of a pan.
InvC32 ==
    /\ Pinching => captured = 2
    /\ Panning => captured >= 1

(***************************************************************************)
\* The export of the pan/zoom mode: the state the deferred frame draws.
\* The component body computes viewportCropForExport and transformForExport
\* and stores them in exportStateRef.current at every render; the effect of
\* useCropToBase64 runs after the render as a passive effect, which React
\* defers for renders that do not come from a discrete event, so an
\* animation frame requested by the previous run can fire between a render
\* and the effect that would cancel it.
(***************************************************************************)
\* exportStateRef.current = null.
NoExportState ==
    [viewportCrop |-> NoCrop,
     transform |-> [scale |-> I(0), translateX |-> I(0), translateY |-> I(0)]]

\* viewportCropForExport of the last render, NoCrop for undefined.
viewportCropForExport ==
    IF usePanZoom /\ cropToPass # NoCrop /\ cropToPass.unit = "px"
       /\ QLt(I(0), cropToPass.width) /\ QLt(I(0), cropToPass.height)
    THEN cropToPass
    ELSE NoCrop

\* exportStateRef.current as the last render left it.
exportState ==
    IF viewportCropForExport # NoCrop /\ usePanZoom
    THEN [viewportCrop |-> viewportCropForExport, transform |-> transform]
    ELSE NoExportState

\* No transform recorded.
NoScreen == [scale |-> I(0), translateX |-> I(0), translateY |-> I(0), rotate |-> 0]

\* The style of the pan/zoom <img>: translate(tx, ty) scale(s) rotate(rotation)
\* about the origin 0 0.
imgStyle ==
    [scale |-> transform.scale, translateX |-> transform.translateX,
     translateY |-> transform.translateY, rotate |-> rotation]

\* The transform the viewport path draws the image with: the context is set
\* to the identity and drawImage places the image at the translate, scaled;
\* nothing rotates it.
drawTransform(t) ==
    [scale |-> t.scale, translateX |-> t.translateX, translateY |-> t.translateY, rotate |-> 0]

\* const state = exportStateRef?.current ?? { viewportCrop, transform }
frameState(captured_) ==
    IF exportState # NoExportState THEN exportState ELSE captured_

\* The useCropToBase64 effect runs after a render that changed the
\* rectangle or the transform it depends on: the cleanup cancels the frame
\* of the previous run, the body takes the viewport path with the rendered
\* rectangle and transform, or the display path.
ExportEffect ==
    \E ctx \in BOOLEAN :
        LET viewport  == viewportCropForExport # NoCrop
            collapsed == completedCrop = NoCrop \/ QLe(completedCrop.width, I(0))
                         \/ QLe(completedCrop.height, I(0))
            out == requestOutcome(TRUE, IF viewport THEN "viewport" ELSE "display",
                                  collapsed, ctx)
            rec == [path |-> IF viewport THEN "viewport" ELSE "display", image |-> TRUE,
                    collapsed |-> ~viewport /\ collapsed, status |-> out,
                    sched |-> exportState, rotation |-> rotation, drawn |-> NoExportState,
                    live |-> NoExportState, screen |-> NoScreen, canvas |-> NoScreen]
        IN  /\ Len(exports) < MaxRequests - 1
            /\ IF exports = <<>> THEN TRUE
               ELSE \/ exports[Len(exports)].sched # exportState
                    \/ exports[Len(exports)].rotation # rotation
            /\ exports' = Append(cleanup(exports), rec)
            /\ cropResults' = IF out = "blank"
                              THEN onCropComplete(Len(exports) + 1, "blank")
                              ELSE cropResults
            /\ UNCHANGED <<imageSrc, loadPending, viewportSize, naturalSize, pendViewport,
                           pendNatural, hostScaling, scaling, transform, queue,
                           lastViewportRef, lastNaturalRef, panRef>>
            /\ UNCHANGED <<steps, loadSrc, shownSrc, lastRender>>
            /\ UNCHANGED <<zoomMultiplier, configVars, gestureVars, lastWheel, cropVars, sourceVars>>

\* The animation frame of a request fires: the image is the same, the state
\* is read from exportStateRef.current or, when that is null, from the
\* values the effect captured; drawn and live record what was drawn and
\* what the ref held.
ExportFrame ==
    \E r \in 1..Len(exports), ctx \in BOOLEAN :
        LET state     == frameState(exports[r].sched)
            collapsed == Round(state.viewportCrop.width) <= 0
                         \/ Round(state.viewportCrop.height) <= 0
            out == frameOutcome(TRUE, collapsed, ctx)
        IN  /\ exports[r].status = "frame"
            /\ exports' = [exports EXCEPT ![r].status = out,
                                          ![r].collapsed = collapsed,
                                          ![r].drawn = IF out = "encoding" THEN state
                                                       ELSE NoExportState,
                                          ![r].live = exportState,
                                          ![r].screen = imgStyle,
                                          ![r].canvas = IF out = "encoding"
                                                        THEN drawTransform(state.transform)
                                                        ELSE NoScreen]
            /\ cropResults' = IF out = "blank" THEN onCropComplete(r, "blank") ELSE cropResults
            /\ UNCHANGED <<imageSrc, loadPending, viewportSize, naturalSize, pendViewport,
                           pendNatural, hostScaling, scaling, transform, queue,
                           lastViewportRef, lastNaturalRef, panRef>>
            /\ UNCHANGED <<steps, loadSrc, shownSrc, lastRender>>
            /\ UNCHANGED <<zoomMultiplier, configVars, gestureVars, lastWheel, cropVars, sourceVars>>

\* A wheel event zooming in over the middle of the image.
WheelIn ==
    /\ steps < MaxSteps
    /\ steps' = steps + 1
    /\ WheelAt(<<200, 100>>, I(2))

\* Rotations the host sets.
Rotations == {0, 90}

\* The host changes the rotation input: the image is rendered rotated.
HostSetRotation ==
    \E d \in Rotations :
        /\ d # rotation
        /\ rotation' = d
        /\ steps < MaxSteps
        /\ steps' = steps + 1
        /\ UNCHANGED <<imageSrc, loadPending, viewportSize, naturalSize, pendViewport,
                       pendNatural, hostScaling, scaling, transform, queue,
                       lastViewportRef, lastNaturalRef, panRef>>
        /\ UNCHANGED <<loadSrc, shownSrc, lastRender, zoomMultiplier>>
        /\ UNCHANGED <<enablePanImage, shiftToPanEnabled, enableCropping, hostLocked,
                       gestureVars, lastWheel, auxVars>>

InitLive == InitCrop /\ defaultCrop = NoCrop

NextLive ==
    \/ HostSetCropping
    \/ HostSetRotation
    \/ WheelIn
    \/ Render
    \/ ExportEffect
    \/ ExportFrame

SpecLive == InitLive /\ [][NextLive]_vars

\* C33: a raster drawn in the deferred frame is drawn from the crop rectangle
\* and the transform the live reference holds when the frame fires, never
\* from the values captured when the frame was requested.
InvC33 ==
    \A r \in 1..Len(exports) :
        exports[r].status = "encoding" => exports[r].drawn = exports[r].live

\* C34: a raster the viewport path draws from the state on screen is drawn
\* with the transform of the on-screen image: the same scale, translate and
\* rotation, whatever the rotation is.
InvC34 ==
    \A r \in 1..Len(exports) :
        (exports[r].status = "encoding" /\ exports[r].drawn = exports[r].live)
            => exports[r].canvas = exports[r].screen

(***************************************************************************)
\* The image source and the crop state: useImageSrc applies the host's
\* default crop when the source changes, when the image loads and when it
\* fails to decode.  The host replaces the image by another one of the same
\* natural size, so the transform keeps its fit.
(***************************************************************************)
\* convertToPixelCrop(defaultCrop ?? blankCrop, img.width, img.height) for a
\* default crop in px; NoCrop stands for the blank rectangle of size 0.
defaultPixelCrop == defaultCrop

\* The crop state after setCrop(crop0), setCompletedCrop(cc0) and the render
\* that follows, in which the crop initialisation effect runs.
afterCropInit(crop0, cc0) ==
    IF usePanZoom /\ isCroppingActive /\ viewportSize[1] > 0 /\ viewportSize[2] > 0
       /\ crop0 = NoCrop
    THEN [crop |-> cropFallback(defaultCrop, cc0, transform, viewportSize, naturalSize),
          ref |-> TRUE, completed |-> cc0]
    ELSE [crop |-> crop0, ref |-> cropIsViewportSpaceRef, completed |-> cc0]

\* applyCrop(): the default crop for a decoded image, no crop otherwise.
applyCrop(complete) ==
    IF complete
    THEN afterCropInit(defaultCrop, defaultPixelCrop)
    ELSE afterCropInit(NoCrop, NoCrop)

\* The host supplies another valid image of the same natural size: the
\* render changes the src of the <img>, the useImageSrc effect runs
\* applyCrop() at once, with the image already decoded (complete) or not,
\* and listens for load and error.
SourceChange ==
    \E s \in {1, 2} \ {imageSrc}, complete \in BOOLEAN :
        LET a == applyCrop(complete)
        IN  /\ ~Dirty
            /\ ~loadPending
            /\ steps < MaxSteps
            /\ steps' = steps + 1
            /\ imageSrc' = s
            /\ loadPending' = TRUE
            /\ loadSrc' = 0
            /\ crop' = a.crop
            /\ completedCrop' = a.completed
            /\ cropIsViewportSpaceRef' = a.ref
            /\ UNCHANGED <<viewportSize, naturalSize, pendViewport, pendNatural, hostScaling,
                           scaling, transform, queue, lastViewportRef, lastNaturalRef, panRef>>
            /\ UNCHANGED <<shownSrc, lastRender, zoomMultiplier>>
            /\ UNCHANGED <<configVars, gestureVars, lastWheel>>
            /\ hostImageInput' = s
            /\ lastHostImageSignature' = hostSig(s)
            /\ UNCHANGED <<internalImageDataUrl, overrideHostImage, lastClearToken>>
            /\ UNCHANGED <<exports, cropResults, defaultCrop, cropBeforeOff>>

\* The load event of the new image: the onLoad listener of useImageSrc runs
\* applyCrop(), handleImageLoad stores the same natural size.
SourceLoaded ==
    LET a == applyCrop(TRUE)
    IN  /\ loadPending
        /\ loadPending' = FALSE
        /\ loadSrc' = imageSrc
        /\ shownSrc' = imageSrc
        /\ crop' = a.crop
        /\ completedCrop' = a.completed
        /\ cropIsViewportSpaceRef' = a.ref
        /\ UNCHANGED <<imageSrc, viewportSize, naturalSize, pendViewport, pendNatural,
                       hostScaling, scaling, transform, queue, lastViewportRef,
                       lastNaturalRef, panRef>>
        /\ UNCHANGED <<steps, lastRender, zoomMultiplier>>
        /\ UNCHANGED <<configVars, gestureVars, lastWheel>>
        /\ UNCHANGED <<sourceVars, exports, cropResults, defaultCrop, cropBeforeOff>>

\* The error event of the new image: the onError listener of useImageSrc
\* drops the crop and blanks the completed crop, handleImageError reports
\* onImageLoadedChange(false); the natural size and the transform stay.
SourceError ==
    LET a == afterCropInit(NoCrop, NoCrop)
    IN  /\ loadPending
        /\ loadPending' = FALSE
        /\ crop' = a.crop
        /\ completedCrop' = a.completed
        /\ cropIsViewportSpaceRef' = a.ref
        /\ UNCHANGED <<imageSrc, viewportSize, naturalSize, pendViewport, pendNatural,
                       hostScaling, scaling, transform, queue, lastViewportRef,
                       lastNaturalRef, panRef>>
        /\ UNCHANGED <<steps, loadSrc, shownSrc, lastRender, zoomMultiplier>>
        /\ UNCHANGED <<configVars, gestureVars, lastWheel>>
        /\ UNCHANGED <<sourceVars, exports, cropResults, defaultCrop, cropBeforeOff>>

\* The source assigned last failed to decode.
DecodeFailed == imageSrc # 0 /\ ~loadPending /\ loadSrc = 0

NextSource ==
    \/ HostSetCropping
    \/ CropChange
    \/ WheelIn
    \/ Render
    \/ SourceChange
    \/ SourceLoaded
    \/ SourceError

SpecSource == InitCrop /\ [][NextSource]_vars

\* C35: in pan/zoom mode with cropping active, a crop that is the host's
\* default crop (a rectangle in image space) is flagged image-space, so the
\* rectangle handed to the widget is its conversion through the transform
\* and not the image-space rectangle itself.
InvC35 ==
    (usePanZoom /\ isCroppingActive /\ crop # NoCrop /\ crop = defaultCrop)
        => (~cropIsViewportSpaceRef /\ cropToPass # defaultCrop)

\* C36: once the source assigned last has failed to decode, the crop
\* rectangle, the completed crop and the view transform are at their unset
\* baseline: no crop, a blank completed crop, the initial transform.
InvC36 ==
    DecodeFailed =>
        /\ crop = NoCrop
        /\ completedCrop = NoCrop
        /\ transform = [scale |-> I(1), translateX |-> I(0), translateY |-> I(0)]

(***************************************************************************)
\* The host scaling input.
(***************************************************************************)
\* A Render whose only work is a change of the host scaling input, with the
\* transform ready.
ScalingRender ==
    /\ Render
    /\ isTransformReady
    /\ hostScaling # scaling
    /\ queue = <<>>
    /\ pendViewport = NoSize
    /\ pendNatural = NoSize

\* clamp(baseScale * m, minScale, maxScale) for the rendered sizes.
ScalingTarget(m) ==
    LET lim == getScaleLimits(viewportSize[1], viewportSize[2], naturalSize[1], naturalSize[2])
    IN  QMax(lim.minScale, QMin(lim.maxScale, QMul(lim.baseScale, m)))

\* The image point under the viewport centre, for transform t.
CentrePoint(t) ==
    <<QDiv(QSub(Q(viewportSize[1], 2), t.translateX), t.scale),
      QDiv(QSub(Q(viewportSize[2], 2), t.translateY), t.scale)>>

\* C37: a Render for a change of the host scaling to m, with the transform
\* ready, leaves scale = clamp(baseScale * m, minScale, maxScale), and when
\* no clamp boundary binds the translate afterwards the image point under
\* the viewport centre is the same as before.
PropC37 ==
    [][ScalingRender =>
          /\ transform'.scale = ScalingTarget(hostScaling)
          /\ NoClampHit(transform)' => CentrePoint(transform)' = CentrePoint(transform)]_vars

\* Witness of C37: the host has set scaling 4 on a wheel-zoomed image; the
\* scale is the clamped 3 * baseScale, the translate is strictly inside its
\* bounds and is not the one a zoom about the viewport origin would leave.
WitC37 ==
    /\ ReadySettled
    /\ scaling = I(4)
    /\ lastRender = "other"
    /\ transform.scale = QMul(I(3), CoverOf(viewportSize, naturalSize))
    /\ NoClampHit(transform)
    /\ \E f \in ZoomFactors, p \in PointerPos :
         LET fit == CoverFit(viewportSize, naturalSize)
             w   == applyScale(viewportSize, naturalSize, fit, QMul(f, fit.scale),
                               I(p[1]), I(p[2]))
         IN  /\ w # fit
             /\ transform = applyScale(viewportSize, naturalSize, w,
                                       QMul(I(3), fit.scale),
                                       Q(viewportSize[1], 2), Q(viewportSize[2], 2))

(***************************************************************************)
\* The pan centre across a viewport resize.
(***************************************************************************)
\* The translate of t is what clampTranslation leaves for the rendered sizes
\* and the scale of t.
TranslateClamped(t) ==
    LET c == clampTranslation(viewportSize[1], viewportSize[2], naturalSize[1],
                              naturalSize[2], t.scale, t.translateX, t.translateY)
    IN  c.translateX = t.translateX /\ c.translateY = t.translateY

effectiveSrc(internal, override, host) ==
    IF override /\ internal # 0 THEN internal
    ELSE IF hostIsValid(host) THEN host
    ELSE IF internal # 0 THEN internal
    ELSE 0

\* Values of the host's imageInput and clearToken, and the images a user drops.
HostInputs == {0, 1, 2, InvalidHost}
ClearTokens == {0, 1}
DroppedImages == {3}

\* The render of ImageCropApp with source s: a new src on the <img> starts
\* a load, the measuring effect (dependency imageSrc) measures again and an
\* empty source resets naturalSize; the same source changes nothing.
ShowSource(s) ==
    /\ imageSrc' = s
    /\ loadPending' = IF s = imageSrc THEN loadPending ELSE (s # 0)
    /\ pendViewport' = IF s = imageSrc \/ pendViewport # NoSize THEN pendViewport
                       ELSE viewportSize
    /\ pendNatural' = IF s # imageSrc /\ s = 0 THEN <<0, 0>> ELSE pendNatural

\* updateView(context): a changed clearToken resets the control state
\* (resetControlState) and returns; otherwise a valid host image whose
\* signature differs from the one seen last clears the override and the
\* internal image. Both paths render with the new context.
UpdateView ==
    \E host \in HostInputs, token \in ClearTokens :
        LET reset   == token # lastClearToken
            newHost == ~reset /\ hostIsValid(host) /\ hostSig(host) # lastHostImageSignature
            cleared == reset \/ newHost
        IN  /\ steps < MaxSteps
            /\ steps' = steps + 1
            /\ lastClearToken' = token
            /\ lastHostImageSignature' = IF reset THEN NoSignature
                                         ELSE IF newHost THEN hostSig(host)
                                         ELSE lastHostImageSignature
            /\ overrideHostImage' = IF cleared THEN FALSE ELSE overrideHostImage
            /\ internalImageDataUrl' = IF cleared THEN 0 ELSE internalImageDataUrl
            /\ hostImageInput' = host
            /\ ShowSource(effectiveSrc(internalImageDataUrl', overrideHostImage', host))
            /\ UNCHANGED <<viewportSize, naturalSize, hostScaling, scaling,
                           transform, queue, lastViewportRef, lastNaturalRef, panRef>>
            /\ UNCHANGED <<loadSrc, shownSrc, lastRender>>
            /\ UNCHANGED <<zoomMultiplier, configVars, gestureVars, lastWheel,
                           exports, cropResults, cropVars>>

\* onDropSuccess(base64): the dropped image is stored, overrides the host
\* image and is rendered.
DropSuccess ==
    \E d \in DroppedImages :
        /\ steps < MaxSteps
        /\ steps' = steps + 1
        /\ internalImageDataUrl' = d
        /\ overrideHostImage' = TRUE
        /\ ShowSource(effectiveSrc(d, TRUE, hostImageInput))
        /\ UNCHANGED <<lastHostImageSignature, lastClearToken, hostImageInput>>
        /\ UNCHANGED <<viewportSize, naturalSize, hostScaling, scaling,
                       transform, queue, lastViewportRef, lastNaturalRef, panRef>>
        /\ UNCHANGED <<loadSrc, shownSrc, lastRender>>
        /\ UNCHANGED <<zoomMultiplier, configVars, gestureVars, lastWheel,
                       exports, cropResults, cropVars>>

\* The control shows the host's image 1, fitted.
InitDrop == DefaultConfig /\ FittedCore(<<450, 350>>, 1) /\ steps = 0

NextDrop ==
    \/ UpdateView
    \/ DropSuccess
    \/ ImageLoad
    \/ Render

SpecDrop == InitDrop /\ [][NextDrop]_vars

\* The dropped image is the one displayed.
DropShown == overrideHostImage /\ internalImageDataUrl # 0 /\ imageSrc = internalImageDataUrl

\* C39: a dropped image that is displayed stays displayed over every step in
\* which the host's image input and clearToken do not change (it is replaced
\* only when the host supplies a different valid image or clearToken
\* changes); and whenever the override is set with an internal image, that
\* image is the displayed source, whatever the host supplies.
PropC39 ==
    [][/\ (overrideHostImage /\ internalImageDataUrl # 0)' => (imageSrc = internalImageDataUrl)'
       /\ (DropShown /\ hostImageInput' = hostImageInput /\ lastClearToken' = lastClearToken)
            => DropShown']_vars

\* ---------------------------------------------------------------------
\* The host binds the scaling input to the zoomMultiplier output.

\* The host reads the published zoomMultiplier (getOutputs) and passes it
\* back as the scaling input, while no update of the control is waiting
\* for a render.
HostEchoScaling ==
    /\ ~Dirty
    /\ hostScaling # zoomMultiplier
    /\ hostScaling' = zoomMultiplier
    /\ UNCHANGED <<imageSrc, loadPending, viewportSize, naturalSize, pendViewport,
                   pendNatural, scaling, transform, queue, lastViewportRef,
                   lastNaturalRef, panRef>>
    /\ UNCHANGED <<steps, loadSrc, shownSrc, lastRender>>
    /\ UNCHANGED <<zoomMultiplier, configVars, gestureVars, lastWheel, auxVars>>

NextEcho ==
    \/ HostEchoScaling
    \/ HostSetScaling
    \/ ResizeNotify
    \/ Wheel
    \/ Render

SpecEcho == InitZoomOut /\ [][NextEcho]_vars

\* The only work waiting for a render is the echoed multiplier.
EchoPending ==
    /\ queue = <<>>
    /\ pendViewport = NoSize
    /\ pendNatural = NoSize
    /\ hostScaling # scaling
    /\ hostScaling = zoomMultiplier

\* Anchors applyScale is called with: the viewport centre and two pointer positions.
EchoAnchors == {<<Q(viewportSize[1], 2), Q(viewportSize[2], 2)>>, <<I(0), I(0)>>, <<I(200), I(100)>>}

\* C40: on a transform whose translate is clamped, applyScale with the
\* stored scale leaves the transform unchanged for every anchor; and the
\* render that applies the echoed zoomMultiplier as the scaling input changes
\* neither the transform nor the published multiplier, after which the
\* echo has nothing left to send.
PropC40 ==
    /\ [](TranslateClamped(transform)
            => \A a \in EchoAnchors :
                 applyScale(viewportSize, naturalSize, transform, transform.scale, a[1], a[2]) = transform)
    /\ [][(EchoPending /\ Render)
            => /\ transform' = transform
               /\ zoomMultiplier' = zoomMultiplier
               /\ hostScaling' = zoomMultiplier']_vars

\* The echo of a multiplier the user produced by zooming has been rendered.
WitC40 ==
    /\ isTransformReady
    /\ ~Dirty
    /\ scaling = zoomMultiplier
    /\ scaling \notin HostScalings
====
